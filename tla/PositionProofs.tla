---------------------------- MODULE PositionProofs -----------------------------
(***************************************************************************)
(* Proofs about what is done to an open position: by ConditionalOrder,     *)
(* whose orders close it at a price, and by PositionClose, which closes it *)
(* at once; each for any number of concurrent calls.                       *)
(***************************************************************************)
EXTENDS ConditionalOrder, PositionClose, TLAPS

-----------------------------------------------------------------------------
(* Conditional orders *)

\* The labels inside a transaction.
Locking == {"triggering", "cancelling", "filling"}

\* Who is inside a transaction holds the lock, its copy is the row, and the change
\* it is about to make is still allowed.
LockInv ==
    \A c \in OrderCalls : at[c] \in Locking =>
        /\ lockedBy = c /\ loaded[c] = order
        /\ Target(at[c]) \in ALLOWED_ORDER_TRANSITIONS[order.status]

\* Every change moves the version, so a copy with the version of the row is the row:
\* an update that would be applied finds the order live, a sweep that finds the
\* version it read has evaluated the conditions that stand.
VersionInv ==
    /\ \A c \in OrderCalls : at[c] \in {"apply", "evaluate", "trigger"} =>
          loaded[c].version <= order.version
    /\ \A c \in OrderCalls : at[c] = "apply" /\ loaded[c].version = order.version =>
          order.status \in Live
    /\ \A c \in Sweeps : at[c] \in {"evaluate", "trigger"} /\ loaded[c].version = order.version =>
          loaded[c].conditions = order.conditions
    /\ \A c \in Sweeps : at[c] = "trigger" => EvaluateConditionGroups(loaded[c].conditions)

\* Nothing is recorded before the order is triggered or ends.
RecordedInv ==
    /\ OneOutcome
    /\ order.status \in {"NONE", "ACTIVE"} => outbox = {}

\* The inductive invariant of the order.
ConditionalInv == ConditionalTypeOK /\ LockInv /\ VersionInv /\ RecordedInv

-----------------------------------------------------------------------------
\* A condition on the clock that was met stays met.
LEMMA EvaluationLasts ==
    ASSUME ConditionalTypeOK, NEW groups \in Groupings \cup {{}}, EvaluateConditionGroups(groups),
           now' \in Times, now' >= now
    PROVE  EvaluateConditionGroups(groups)'
<1>1. now \in Nat /\ now' \in Nat
  BY HorizonAssumption DEF ConditionalTypeOK, Times
<1>2. PICK g \in groups : EvaluateSingleGroup(g)
  BY DEF EvaluateConditionGroups
<1>3. /\ g.conditions \in SUBSET [type : {"TIME_BASED", "PRICE_ABOVE"}, value : Nat]
      /\ g \in groups
  BY <1>2, GroupingsAssumption
<1>4. ASSUME NEW k \in g.conditions, EvaluateSingleCondition(k)
      PROVE  k.type = "TIME_BASED" /\ now' >= k.value
  <2>1. k.value \in Nat
    BY <1>3
  <2>. QED  BY <1>1, <1>4, <2>1 DEF EvaluateSingleCondition
<1>5. /\ g.conditions # {}
      /\ IF g.operator = "AND" THEN \A k \in g.conditions : k.type = "TIME_BASED" /\ now' >= k.value
                               ELSE \E k \in g.conditions : k.type = "TIME_BASED" /\ now' >= k.value
  BY <1>2, <1>4 DEF EvaluateSingleGroup
<1>. QED  BY <1>3, <1>5 DEF EvaluateConditionGroups, EvaluateSingleGroup, EvaluateSingleCondition

\* The table, as facts.
LEMMA TransitionTable ==
    ASSUME NEW s \in OrderStatus
    PROVE  /\ "TRIGGERED" \in ALLOWED_ORDER_TRANSITIONS[s] <=> s \in Live
           /\ "CANCELLED" \in ALLOWED_ORDER_TRANSITIONS[s] <=> s \in Live \cup {"TRIGGERED"}
           /\ "FILLED" \in ALLOWED_ORDER_TRANSITIONS[s] <=> s = "TRIGGERED"
BY DEF OrderStatus, ALLOWED_ORDER_TRANSITIONS, Live

\* A change of the status, with a new version, gives a row.
LEMMA StatusChange ==
    ASSUME NEW r \in OrderRow, NEW s \in OrderStatus, NEW v \in Nat
    PROVE  [r EXCEPT !.status = s, !.version = v] \in OrderRow
<1>. DEFINE G == Groupings \cup {{}}
            E == 0..Never
<1>1. OrderRow = [status : OrderStatus, conditions : G, expiresAt : E, version : Nat]
  BY DEF OrderRow
<1>. HIDE DEF G, E
<1>. QED  BY <1>1, Zenon

\* So does a change of the terms.
LEMMA TermsChange ==
    ASSUME NEW r \in OrderRow, NEW g \in Groupings \cup {{}}, NEW e \in 0..Never, NEW v \in Nat
    PROVE  [r EXCEPT !.conditions = g, !.expiresAt = e, !.version = v] \in OrderRow
<1>. DEFINE G == Groupings \cup {{}}
            E == 0..Never
<1>1. OrderRow = [status : OrderStatus, conditions : G, expiresAt : E, version : Nat]
  BY DEF OrderRow
<1>2. g \in G /\ e \in E
  OBVIOUS
<1>. HIDE DEF G, E
<1>. QED  BY <1>1, <1>2, Zenon

-----------------------------------------------------------------------------
\* It holds before createOrder.
LEMMA ConditionalInitial == ConditionalInit => ConditionalInv
<1>. SUFFICES ASSUME ConditionalInit PROVE ConditionalInv
  OBVIOUS
<1>1. ConditionalTypeOK
  BY HorizonAssumption DEF ConditionalInit, ConditionalTypeOK, NoOrder, OrderRow, OrderStatus,
     Never,
     Times, OrderPlaces, Before
<1>2. \A c \in OrderCalls : at[c] = "idle"
  BY DEF ConditionalInit
<1>3. LockInv
  BY <1>2 DEF LockInv, Locking
<1>4. VersionInv
  BY <1>2 DEF VersionInv, OrderCalls
<1>5. RecordedInv
  BY DEF ConditionalInit, RecordedInv, OneOutcome, NoOrder
<1>. QED  BY <1>1, <1>3, <1>4, <1>5 DEF ConditionalInv

\* The steps that leave the row, the lock and the records alone and move one call, to a
\* place outside a transaction.
LEMMA MovesOutside ==
    ASSUME ConditionalInv, NEW c \in OrderCalls, NEW place \in OrderPlaces \ Locking,
           NEW row \in OrderRow, GoOn(c, place, row), at[c] \notin Locking,
           UNCHANGED <<order, outbox, fills, lockedBy, now, mishaps>>,
           sent' \in [UpdateCalls -> Nat],
           place \in {"apply", "evaluate", "trigger"} => row.version <= order.version,
           place = "apply" /\ row.version = order.version => order.status \in Live,
           c \in Sweeps /\ place \in {"evaluate", "trigger"} /\ row.version = order.version
              => row.conditions = order.conditions,
           c \in Sweeps /\ place = "trigger" => EvaluateConditionGroups(row.conditions)
    PROVE  ConditionalInv'
<1>1. ConditionalTypeOK'
  BY DEF ConditionalInv, ConditionalTypeOK, GoOn
<1>2. \A d \in OrderCalls : d # c => at'[d] = at[d] /\ loaded'[d] = loaded[d]
  BY DEF ConditionalInv, ConditionalTypeOK, GoOn
<1>3. at'[c] = place /\ loaded'[c] = row
  BY DEF ConditionalInv, ConditionalTypeOK, GoOn
<1>4. LockInv'
  BY <1>2, <1>3 DEF ConditionalInv, LockInv
<1>5. VersionInv'
  <2>1. Sweeps \subseteq OrderCalls
    BY DEF OrderCalls
  <2>2. \A groups : EvaluateConditionGroups(groups) =>
           \E g \in groups : (EvaluateSingleGroup(g))'
    BY DEF EvaluateConditionGroups, EvaluateSingleGroup, EvaluateSingleCondition
  <2>3. \A d \in Sweeps : at'[d] = "trigger" => EvaluateConditionGroups(loaded[d].conditions)'
    <3>1. SUFFICES ASSUME NEW d \in Sweeps, at'[d] = "trigger"
                   PROVE  EvaluateConditionGroups(loaded'[d].conditions)
      BY <2>2 DEF EvaluateConditionGroups
    <3>. QED  BY <1>2, <1>3, <2>1, <3>1 DEF ConditionalInv, VersionInv
  <2>. QED  BY <1>2, <1>3, <2>1, <2>3 DEF ConditionalInv, VersionInv
<1>6. RecordedInv'
  BY DEF ConditionalInv, RecordedInv, OneOutcome
<1>. QED  BY <1>1, <1>4, <1>5, <1>6 DEF ConditionalInv

\* The steps that change the row while nobody else is inside a transaction: the version
\* moves on, so that what any call has read is now older than the row.
LEMMA RowMovesOn ==
    ASSUME ConditionalInv, order' \in OrderRow, order'.version > order.version, now' = now,
           \A d \in OrderCalls : /\ at'[d] \notin Locking
                                 /\ at'[d] \in {"apply", "evaluate", "trigger"} =>
                                       at'[d] = at[d] /\ loaded'[d] = loaded[d]
    PROVE  LockInv' /\ VersionInv'
<1>1. LockInv'
  BY DEF LockInv
<1>2. Sweeps \subseteq OrderCalls
  BY DEF OrderCalls
<1>3. order.version \in Nat /\ order'.version \in Nat /\ \A d \in OrderCalls : loaded[d].version \in Nat
  BY DEF ConditionalInv, ConditionalTypeOK, OrderRow
<1>4. \A d \in OrderCalls : at'[d] \in {"apply", "evaluate", "trigger"} =>
         /\ loaded'[d].version <= order'.version
         /\ loaded'[d].version # order'.version
  BY <1>3 DEF ConditionalInv, VersionInv
<1>5. ASSUME NEW d \in Sweeps, at'[d] = "trigger"
      PROVE  EvaluateConditionGroups(loaded[d].conditions)'
  <2>1. at[d] = "trigger" /\ loaded'[d] = loaded[d]
    BY <1>2, <1>5
  <2>2. EvaluateConditionGroups(loaded[d].conditions)
    BY <2>1, <1>5 DEF ConditionalInv, VersionInv
  <2>. QED  BY <2>1, <2>2 DEF EvaluateConditionGroups, EvaluateSingleGroup, EvaluateSingleCondition
<1>6. VersionInv'
  BY <1>2, <1>4, <1>5 DEF VersionInv
<1>. QED  BY <1>1, <1>6

\* While the lock is free nobody is inside a transaction.
LEMMA FreeLock ==
    ASSUME ConditionalInv, lockedBy = "nobody"
    PROVE  \A d \in OrderCalls : at[d] \notin Locking
BY NobodyAssumption DEF ConditionalInv, LockInv

\* Leave moves one call to a place outside any transaction.
LEMMA LeaveMoves ==
    ASSUME ConditionalTypeOK, NEW c \in OrderCalls, Leave(c)
    PROVE  /\ at' \in [OrderCalls -> OrderPlaces] /\ loaded' \in [OrderCalls -> OrderRow]
           /\ at'[c] \in {"idle", "done"}
           /\ \A d \in OrderCalls : d # c => at'[d] = at[d] /\ loaded'[d] = loaded[d]
BY HorizonAssumption
   DEF ConditionalTypeOK, Leave, GoOn, OrderPlaces, NoOrder, OrderRow, OrderStatus, Never

\* A call outside a transaction that leaves changes nothing else.
LEMMA LeaveOutside ==
    ASSUME ConditionalInv, NEW c \in OrderCalls, Leave(c), at[c] \notin Locking,
           UNCHANGED <<order, outbox, fills, lockedBy, now, sent, mishaps>>
    PROVE  ConditionalInv'
<1>. DEFINE place == IF c \in Sweeps THEN "idle" ELSE "done"
<1>1. GoOn(c, place, NoOrder)
  BY DEF Leave
<1>2. place \in OrderPlaces \ Locking /\ place \notin {"apply", "evaluate", "trigger"}
  BY DEF OrderPlaces, Locking
<1>3. NoOrder \in OrderRow
  BY HorizonAssumption DEF NoOrder, OrderRow, OrderStatus, Never
<1>4. sent' \in [UpdateCalls -> Nat]
  BY DEF ConditionalInv, ConditionalTypeOK
<1>. HIDE DEF place
<1>. QED  BY <1>1, <1>2, <1>3, <1>4, MovesOutside

\* createOrder.
LEMMA CreateOrderPreserves == ConditionalInv /\ CreateOrder => ConditionalInv'
<1>. SUFFICES ASSUME ConditionalInv, CreateOrder PROVE ConditionalInv'
  OBVIOUS
<1>1. ConditionalTypeOK /\ order.status = "NONE" /\ order.version = 0
  BY DEF ConditionalInv, CreateOrder, NoOrder
<1>2. order' \in OrderRow /\ order'.version = 1 /\ order'.status = "PENDING"
  BY HorizonAssumption DEF CreateOrder, OrderRow, OrderStatus, Never
<1>3. \A d \in OrderCalls : at[d] \notin Locking
  <2>1. SUFFICES ASSUME NEW d \in OrderCalls, at[d] \in Locking PROVE FALSE
    OBVIOUS
  <2>2. Target(at[d]) \in ALLOWED_ORDER_TRANSITIONS["NONE"]
    BY <1>1, <2>1 DEF ConditionalInv, LockInv
  <2>3. Target(at[d]) \in {"TRIGGERED", "CANCELLED", "FILLED"}
    BY <2>1 DEF Target, Locking
  <2>. QED  BY <2>2, <2>3, TransitionTable DEF OrderStatus, Live
<1>4. ConditionalTypeOK'
  BY <1>1, <1>2 DEF CreateOrder, ConditionalTypeOK
<1>5. LockInv' /\ VersionInv'
  BY <1>1, <1>2, <1>3, RowMovesOn DEF CreateOrder
<1>6. outbox = {} /\ fills = 0
  BY <1>1 DEF ConditionalInv, RecordedInv, OneOutcome
<1>7. RecordedInv'
  BY <1>2, <1>6 DEF CreateOrder, RecordedInv, OneOutcome
<1>. QED  BY <1>4, <1>5, <1>7 DEF ConditionalInv

\* The expiry of stale orders.
LEMMA ExpirePreserves == ConditionalInv /\ ExpireStaleOrders => ConditionalInv'
<1>. SUFFICES ASSUME ConditionalInv, ExpireStaleOrders PROVE ConditionalInv'
  OBVIOUS
<1>1. ConditionalTypeOK /\ order \in OrderRow /\ order.status \in Live
  BY DEF ConditionalInv, ConditionalTypeOK, ExpireStaleOrders
<1>2. order' \in OrderRow /\ order'.version > order.version /\ order'.status = "EXPIRED"
  <2>1. order' = [order EXCEPT !.status = "EXPIRED", !.version = order.version + 1]
    BY DEF ExpireStaleOrders
  <2>2. order.version \in Nat /\ order.version + 1 \in Nat /\ "EXPIRED" \in OrderStatus
    BY <1>1 DEF OrderRow, OrderStatus
  <2>3. order' \in OrderRow
    BY <1>1, <2>1, <2>2, StatusChange, Zenon
  <2>4. order'.version = order.version + 1 /\ order'.status = "EXPIRED"
    BY <1>1, <2>1 DEF OrderRow
  <2>. QED  BY <2>2, <2>3, <2>4
<1>3. ConditionalTypeOK'
  BY <1>1, <1>2 DEF ExpireStaleOrders, ConditionalTypeOK
<1>4. LockInv' /\ VersionInv'
  BY <1>2, FreeLock, RowMovesOn DEF ExpireStaleOrders
<1>5. RecordedInv'
  BY <1>1, <1>2 DEF ExpireStaleOrders, ConditionalInv, RecordedInv, OneOutcome, Live
<1>. QED  BY <1>3, <1>4, <1>5 DEF ConditionalInv

\* The clock.
LEMMA TimePassesPreserves == ConditionalInv /\ TimePasses => ConditionalInv'
<1>. SUFFICES ASSUME ConditionalInv, TimePasses PROVE ConditionalInv'
  OBVIOUS
<1>1. ConditionalTypeOK /\ now \in Nat
  BY HorizonAssumption DEF ConditionalInv, ConditionalTypeOK, Times
<1>2. now' \in Times /\ now' >= now
  BY <1>1, HorizonAssumption DEF TimePasses, ConditionalTypeOK, Times
<1>3. ConditionalTypeOK'
  BY <1>1, <1>2 DEF TimePasses, ConditionalTypeOK
<1>4. LockInv' /\ RecordedInv'
  BY DEF TimePasses, ConditionalInv, LockInv, RecordedInv, OneOutcome
<1>5. VersionInv'
  <2>1. ASSUME NEW d \in Sweeps, at'[d] = "trigger"
        PROVE  EvaluateConditionGroups(loaded[d].conditions)'
    <3>1. at[d] = "trigger" /\ loaded'[d] = loaded[d]
      BY <2>1 DEF TimePasses
    <3>2. EvaluateConditionGroups(loaded[d].conditions)
      BY <2>1, <3>1 DEF ConditionalInv, VersionInv
    <3>3. loaded[d].conditions \in Groupings \cup {{}}
      BY <1>1 DEF ConditionalTypeOK, OrderRow, OrderCalls
    <3>4. ASSUME NEW groups \in Groupings \cup {{}}, EvaluateConditionGroups(groups)
          PROVE  EvaluateConditionGroups(groups)'
      BY <1>1, <1>2, <3>4, EvaluationLasts
    <3>. QED  BY <3>1, <3>2, <3>3, <3>4 DEF EvaluateConditionGroups
  <2>. QED  BY <2>1 DEF TimePasses, ConditionalInv, VersionInv
<1>. QED  BY <1>3, <1>4, <1>5 DEF ConditionalInv

\* The versioned update.
LEMMA UpdateAppliesPreserves ==
    ASSUME ConditionalInv, NEW c \in UpdateCalls, UpdateApplies(c)
    PROVE  ConditionalInv'
<1>1. ConditionalTypeOK /\ c \in OrderCalls /\ order \in OrderRow /\ order.expiresAt \in 0..Never
  BY DEF ConditionalInv, ConditionalTypeOK, OrderCalls, OrderRow
<1>2. \A d \in OrderCalls : at[d] \notin Locking
  BY FreeLock, Zenon DEF UpdateApplies
<1>3. CASE order.version = sent[c]
  <2>1. PICK groups \in Groupings, e \in {order.expiresAt} \cup Times :
           order' = [order EXCEPT !.conditions = groups, !.expiresAt = e, !.version = @ + 1]
    BY <1>3, Zenon DEF UpdateApplies
  <2>2. e \in 0..Never
    BY <1>1, HorizonAssumption DEF Times, Never
  <2>3. order' \in OrderRow /\ order'.version > order.version /\ order'.status = order.status
    <3>1. order' = [order EXCEPT !.conditions = groups, !.expiresAt = e, !.version = order.version + 1]
      BY <2>1
    <3>2. order.version \in Nat /\ order.version + 1 \in Nat /\ groups \in Groupings \cup {{}}
      BY <1>1 DEF OrderRow
    <3>3. order' \in OrderRow
      BY <1>1, <2>2, <3>1, <3>2, TermsChange, Zenon
    <3>4. order'.version = order.version + 1 /\ order'.status = order.status
      BY <1>1, <3>1 DEF OrderRow
    <3>. QED  BY <3>2, <3>3, <3>4
  <2>4. ConditionalTypeOK'
    BY <1>1, <2>3, LeaveMoves, ZenonT(30) DEF UpdateApplies, ConditionalTypeOK
  <2>5. LockInv' /\ VersionInv'
    BY <1>1, <1>2, <2>3, LeaveMoves, RowMovesOn, ZenonT(30) DEF UpdateApplies, Locking
  <2>6. RecordedInv'
    BY <2>3, Zenon DEF UpdateApplies, ConditionalInv, RecordedInv, OneOutcome
  <2>. QED  BY <2>4, <2>5, <2>6 DEF ConditionalInv
<1>4. CASE order.version # sent[c]
  BY <1>1, <1>2, <1>4, LeaveOutside DEF UpdateApplies
<1>. QED  BY <1>3, <1>4

\* A sweep, up to its trigger.
LEMMA SweepPreserves ==
    ASSUME ConditionalInv, NEW c \in Sweeps, SweepStep(c)
    PROVE  ConditionalInv'
<1>1. c \in OrderCalls /\ order \in OrderRow /\ loaded[c] \in OrderRow
  BY DEF ConditionalInv, ConditionalTypeOK, OrderCalls
<1>2. CASE SweepReads(c)
  <2>1. /\ GoOn(c, "evaluate", order) /\ at[c] \notin Locking
        /\ UNCHANGED <<order, outbox, fills, lockedBy, now, mishaps>>
        /\ sent' \in [UpdateCalls -> Nat]
    BY <1>2 DEF SweepReads, Locking, ConditionalInv, ConditionalTypeOK
  <2>2. "evaluate" \in OrderPlaces \ Locking /\ order.version <= order.version
    BY <1>1 DEF OrderPlaces, Locking, OrderRow
  <2>. QED  BY <1>1, <2>1, <2>2, MovesOutside
<1>3. CASE SweepEvaluates(c)
  <2>1. at[c] = "evaluate" /\ at[c] \notin Locking
    BY <1>3 DEF SweepEvaluates, Locking
  <2>2. CASE EvaluateConditionGroups(loaded[c].conditions)
    <3>1. /\ GoOn(c, "trigger", loaded[c])
          /\ UNCHANGED <<order, outbox, fills, lockedBy, now, mishaps>>
          /\ sent' \in [UpdateCalls -> Nat]
      BY <1>3, <2>2 DEF SweepEvaluates, ConditionalInv, ConditionalTypeOK
    <3>2. "trigger" \in OrderPlaces \ Locking
      BY DEF OrderPlaces, Before, Locking
    <3>3. /\ loaded[c].version <= order.version
          /\ loaded[c].version = order.version => loaded[c].conditions = order.conditions
      BY <1>1, <2>1 DEF ConditionalInv, VersionInv
    <3>. QED  BY <1>1, <2>1, <2>2, <3>1, <3>2, <3>3, MovesOutside
  <2>3. CASE ~EvaluateConditionGroups(loaded[c].conditions)
    BY <1>1, <1>3, <2>1, <2>3, LeaveOutside DEF SweepEvaluates
  <2>. QED  BY <2>2, <2>3
<1>. QED  BY <1>2, <1>3 DEF SweepStep

\* A cancel or an execution looks the order up.
LEMMA LookUpPreserves ==
    ASSUME ConditionalInv, NEW c \in CancelCalls \cup ExecuteCalls, LookUp(c)
    PROVE  ConditionalInv'
<1>. DEFINE place == IF c \in CancelCalls THEN "cancel" ELSE "fill"
<1>1. /\ c \in OrderCalls /\ GoOn(c, place, NoOrder) /\ at[c] \notin Locking
      /\ UNCHANGED <<order, outbox, fills, lockedBy, now, mishaps>>
      /\ sent' \in [UpdateCalls -> Nat]
  BY DEF LookUp, Locking, OrderCalls, ConditionalInv, ConditionalTypeOK
<1>2. place \in OrderPlaces \ Locking /\ place \notin {"apply", "evaluate", "trigger"}
  BY DEF OrderPlaces, Before, Locking
<1>3. NoOrder \in OrderRow
  BY HorizonAssumption DEF NoOrder, OrderRow, OrderStatus, Never
<1>. HIDE DEF place
<1>. QED  BY <1>1, <1>2, <1>3, MovesOutside

\* An update reads the order.
LEMMA UpdateReadsPreserves ==
    ASSUME ConditionalInv, NEW c \in UpdateCalls, UpdateReads(c)
    PROVE  ConditionalInv'
<1>1. c \in OrderCalls /\ c \notin Sweeps /\ order \in OrderRow /\ at[c] \notin Locking
  BY OrderCallsAssumption DEF ConditionalInv, ConditionalTypeOK, OrderCalls, UpdateReads, Locking
<1>2. CASE order.status \in Live
  <2>1. PICK v \in ClientVersions \cup {order.version} : sent' = [sent EXCEPT ![c] = v]
    BY <1>2 DEF UpdateReads
  <2>2. sent' \in [UpdateCalls -> Nat]
    BY <1>1, <2>1, VersionsAssumption DEF ConditionalInv, ConditionalTypeOK, OrderRow
  <2>3. "apply" \in OrderPlaces \ Locking /\ order.version <= order.version
    BY <1>1 DEF OrderPlaces, Locking, OrderRow
  <2>4. GoOn(c, "apply", order) /\ UNCHANGED <<order, outbox, fills, lockedBy, now, mishaps>>
    BY <1>2 DEF UpdateReads
  <2>. QED  BY <1>1, <1>2, <2>2, <2>3, <2>4, MovesOutside
<1>3. CASE order.status \notin Live
  BY <1>1, <1>3, LeaveOutside DEF UpdateReads
<1>. QED  BY <1>2, <1>3

\* A transaction locks the row and checks the transition.
LEMMA LockAndCheckPreserves ==
    ASSUME ConditionalInv, NEW c \in OrderCalls, LockAndCheck(c)
    PROVE  ConditionalInv'
<1>1. at[c] \in Before /\ at[c] \notin Locking /\ order \in OrderRow /\ ConditionalTypeOK
  BY DEF LockAndCheck, Before, Locking, ConditionalInv, ConditionalTypeOK
<1>2. \A d \in OrderCalls : at[d] \notin Locking
  BY FreeLock DEF LockAndCheck
<1>3. CASE Target(at[c]) \in ALLOWED_ORDER_TRANSITIONS[order.status]
  <2>1. /\ lockedBy' = c /\ GoOn(c, Inside(at[c]), order)
        /\ UNCHANGED <<order, outbox, fills, now, sent, mishaps>>
    BY <1>3 DEF LockAndCheck
  <2>2. /\ Inside(at[c]) \in Locking /\ Inside(at[c]) \in OrderPlaces
        /\ Target(Inside(at[c])) = Target(at[c])
    BY <1>1 DEF Before, Inside, Locking, OrderPlaces, Target
  <2>3. /\ at' \in [OrderCalls -> OrderPlaces] /\ loaded' \in [OrderCalls -> OrderRow]
        /\ at'[c] = Inside(at[c]) /\ loaded'[c] = order
        /\ \A d \in OrderCalls : d # c => at'[d] = at[d] /\ loaded'[d] = loaded[d]
    BY <1>1, <2>1, <2>2 DEF GoOn, ConditionalTypeOK
  <2>4. ConditionalTypeOK'
    BY <1>1, <2>1, <2>3 DEF ConditionalTypeOK
  <2>5. LockInv'
    <3>1. SUFFICES ASSUME NEW d \in OrderCalls, at'[d] \in Locking
                   PROVE  /\ d = c /\ lockedBy' = d /\ loaded'[d] = order'
                          /\ Target(at'[d]) \in ALLOWED_ORDER_TRANSITIONS[order'.status]
      BY ZenonT(30) DEF LockInv, Target, ALLOWED_ORDER_TRANSITIONS
    <3>2. d = c
      BY <1>2, <2>3, <3>1, ZenonT(30)
    <3>. QED  BY <1>3, <2>1, <2>2, <2>3, <3>2
  <2>6. VersionInv'
    <3>1. at'[c] \notin {"apply", "evaluate", "trigger"}
      BY <2>2, <2>3 DEF Locking
    <3>2. Sweeps \subseteq OrderCalls
      BY ZenonT(30) DEF OrderCalls
    <3>3. ASSUME NEW d \in Sweeps, at'[d] = "trigger"
          PROVE  EvaluateConditionGroups(loaded[d].conditions)'
      <4>1. at[d] = "trigger" /\ loaded'[d] = loaded[d]
        BY <2>3, <3>1, <3>2, <3>3
      <4>2. EvaluateConditionGroups(loaded[d].conditions)
        BY <3>3, <4>1 DEF ConditionalInv, VersionInv
      <4>. QED  BY <2>1, <4>1, <4>2
                DEF EvaluateConditionGroups, EvaluateSingleGroup, EvaluateSingleCondition
    <3>. QED  BY <2>1, <2>3, <3>1, <3>2, <3>3 DEF ConditionalInv, VersionInv
  <2>7. RecordedInv'
    BY <2>1, ZenonT(30) DEF ConditionalInv, RecordedInv, OneOutcome
  <2>. QED  BY <2>4, <2>5, <2>6, <2>7 DEF ConditionalInv
<1>4. CASE Target(at[c]) \notin ALLOWED_ORDER_TRANSITIONS[order.status]
  BY <1>1, <1>4, LeaveOutside DEF LockAndCheck
<1>. QED  BY <1>3, <1>4

\* A transaction that commits holds the lock and writes what it read, status apart.
LEMMA CommitWrites ==
    ASSUME ConditionalInv, NEW c \in OrderCalls, Commit(c)
    PROVE  /\ Target(at[c]) \in {"TRIGGERED", "CANCELLED", "FILLED"}
           /\ Target(at[c]) \in ALLOWED_ORDER_TRANSITIONS[order.status]
           /\ order' = [order EXCEPT !.status = Target(at[c]), !.version = order.version + 1]
           /\ order' \in OrderRow /\ order'.version = order.version + 1
           /\ order'.status = Target(at[c]) /\ order.version \in Nat
<1>1. at[c] \in Locking /\ loaded[c] = order /\ order \in OrderRow
  BY DEF Commit, Locking, ConditionalInv, LockInv, ConditionalTypeOK
<1>2. /\ Target(at[c]) \in {"TRIGGERED", "CANCELLED", "FILLED"}
      /\ Target(at[c]) \in ALLOWED_ORDER_TRANSITIONS[order.status]
  BY <1>1 DEF Target, Locking, ConditionalInv, LockInv
<1>3. order' = [order EXCEPT !.status = Target(at[c]), !.version = order.version + 1]
  BY <1>1 DEF Commit
<1>4. order.version \in Nat /\ order.version + 1 \in Nat /\ Target(at[c]) \in OrderStatus
  BY <1>1, <1>2 DEF OrderRow, OrderStatus
<1>5. order' \in OrderRow
  BY <1>1, <1>3, <1>4, StatusChange, Zenon
<1>6. order'.version = order.version + 1 /\ order'.status = Target(at[c])
  BY <1>1, <1>3 DEF OrderRow
<1>. QED  BY <1>2, <1>3, <1>4, <1>5, <1>6

\* A transaction writes the row and its event.
LEMMA CommitPreserves ==
    ASSUME ConditionalInv, NEW c \in OrderCalls, Commit(c)
    PROVE  ConditionalInv'
<1>1. ConditionalTypeOK /\ at[c] \in Locking /\ lockedBy = c
  BY DEF Commit, Locking, ConditionalInv, LockInv
<1>2. /\ at' \in [OrderCalls -> OrderPlaces] /\ loaded' \in [OrderCalls -> OrderRow]
      /\ at'[c] \in {"idle", "done", "fill"}
      /\ \A d \in OrderCalls : d # c => at'[d] = at[d] /\ loaded'[d] = loaded[d]
  <2>1. Leave(c) \/ GoOn(c, "fill", NoOrder)
    BY DEF Commit, AfterTrigger
  <2>2. CASE GoOn(c, "fill", NoOrder)
    BY <1>1, <2>2, HorizonAssumption
       DEF ConditionalTypeOK, GoOn, OrderPlaces, Before, NoOrder, OrderRow, OrderStatus, Never
  <2>. QED  BY <1>1, <2>1, <2>2, LeaveMoves
<1>3. /\ outbox' = outbox \cup {Target(at[c])}
      /\ fills' = IF Target(at[c]) = "FILLED" THEN fills + 1 ELSE fills
      /\ lockedBy' = "nobody" /\ UNCHANGED <<now, sent, mishaps>>
  BY DEF Commit
<1>4. PICK to \in {"TRIGGERED", "CANCELLED", "FILLED"} :
         /\ to = Target(at[c]) /\ to \in ALLOWED_ORDER_TRANSITIONS[order.status]
         /\ order' \in OrderRow /\ order'.status = to
         /\ order.version \in Nat /\ order'.version = order.version + 1
  BY CommitWrites, Zenon
<1>5. ConditionalTypeOK'
  <2>1. outbox' \subseteq {"TRIGGERED", "CANCELLED", "FILLED"}
    BY <1>1, <1>3, <1>4, Zenon DEF ConditionalTypeOK
  <2>2. fills' \in Nat
    BY <1>1, <1>3 DEF ConditionalTypeOK
  <2>. QED  BY <1>1, <1>2, <1>3, <1>4, <2>1, <2>2 DEF ConditionalTypeOK
<1>6. LockInv' /\ VersionInv'
  <2>1. \A d \in OrderCalls : d # c => at[d] \notin Locking
    BY <1>1 DEF ConditionalInv, LockInv
  <2>2. \A d \in OrderCalls : /\ at'[d] \notin Locking
                              /\ at'[d] \in {"apply", "evaluate", "trigger"} =>
                                    at'[d] = at[d] /\ loaded'[d] = loaded[d]
    BY <1>2, <2>1 DEF Locking
  <2>3. order' \in OrderRow /\ order'.version > order.version /\ now' = now
    BY <1>3, <1>4
  <2>. QED  BY <2>2, <2>3, RowMovesOn, Zenon
<1>7. RecordedInv'
  <2>1. order.status \in OrderStatus
    BY <1>1 DEF ConditionalTypeOK, OrderRow
  <2>2. /\ to = "TRIGGERED" => order.status \in Live
        /\ to = "CANCELLED" => order.status \in Live \cup {"TRIGGERED"}
        /\ to = "FILLED" => order.status = "TRIGGERED"
    BY <1>4, <2>1, TransitionTable
  <2>3. outbox' = outbox \cup {to} /\ fills' = IF to = "FILLED" THEN fills + 1 ELSE fills
    BY <1>3, <1>4, ZenonT(30)
  <2>4. CASE to = "TRIGGERED"
    BY <1>4, <2>2, <2>3, <2>4 DEF ConditionalInv, RecordedInv, OneOutcome, Live
  <2>5. CASE to = "CANCELLED"
    BY <1>4, <2>2, <2>3, <2>5 DEF ConditionalInv, RecordedInv, OneOutcome, Live
  <2>6. CASE to = "FILLED"
    BY <1>4, <2>2, <2>3, <2>6 DEF ConditionalInv, RecordedInv, OneOutcome, Live
  <2>. QED  BY <2>4, <2>5, <2>6
<1>. QED  BY <1>5, <1>6, <1>7 DEF ConditionalInv

\* A call is interrupted, and its lock released.
LEMMA InterruptedPreserves ==
    ASSUME ConditionalInv, NEW c \in OrderCalls, Interrupted(c)
    PROVE  ConditionalInv'
<1>1. ConditionalTypeOK /\ Leave(c) /\ UNCHANGED <<order, outbox, fills, now>>
  BY DEF ConditionalInv, Interrupted
<1>2. ConditionalTypeOK'
  BY <1>1, LeaveMoves, HorizonAssumption DEF Interrupted, ConditionalTypeOK
<1>3. /\ at'[c] \in {"idle", "done"}
      /\ \A d \in OrderCalls : d # c => at'[d] = at[d] /\ loaded'[d] = loaded[d]
  BY <1>1, LeaveMoves
<1>4. LockInv'
  <2>1. SUFFICES ASSUME NEW d \in OrderCalls, at'[d] \in Locking
                 PROVE  /\ lockedBy' = d /\ loaded'[d] = order'
                        /\ Target(at'[d]) \in ALLOWED_ORDER_TRANSITIONS[order'.status]
    BY Zenon DEF LockInv, Target, ALLOWED_ORDER_TRANSITIONS
  <2>2. d # c /\ at'[d] = at[d] /\ loaded'[d] = loaded[d]
    BY <1>3, <2>1 DEF Locking
  <2>3. /\ lockedBy = d /\ loaded[d] = order
        /\ Target(at[d]) \in ALLOWED_ORDER_TRANSITIONS[order.status]
    BY <2>1, <2>2, ZenonT(30) DEF ConditionalInv, LockInv
  <2>. QED  BY <1>1, <2>2, <2>3 DEF Interrupted
<1>5. VersionInv'
  <2>1. Sweeps \subseteq OrderCalls
    BY DEF OrderCalls
  <2>2. ASSUME NEW d \in Sweeps, at'[d] = "trigger"
        PROVE  EvaluateConditionGroups(loaded[d].conditions)'
    <3>1. at[d] = "trigger" /\ loaded'[d] = loaded[d]
      BY <1>3, <2>1, <2>2
    <3>2. EvaluateConditionGroups(loaded[d].conditions)
      BY <2>2, <3>1 DEF ConditionalInv, VersionInv
    <3>. QED  BY <1>1, <3>1, <3>2
              DEF EvaluateConditionGroups, EvaluateSingleGroup, EvaluateSingleCondition
  <2>. QED  BY <1>1, <1>3, <2>1, <2>2 DEF ConditionalInv, VersionInv
<1>6. RecordedInv'
  BY <1>1 DEF ConditionalInv, RecordedInv, OneOutcome
<1>. QED  BY <1>2, <1>4, <1>5, <1>6 DEF ConditionalInv

\* Every step keeps the invariant.
LEMMA ConditionalStep == ConditionalInv /\ [ConditionalNext]_conditionalVars => ConditionalInv'
<1>. SUFFICES ASSUME ConditionalInv, [ConditionalNext]_conditionalVars PROVE ConditionalInv'
  OBVIOUS
<1>1. CASE CreateOrder
  BY <1>1, CreateOrderPreserves
<1>2. CASE ExpireStaleOrders
  BY <1>2, ExpirePreserves
<1>3. CASE TimePasses
  BY <1>3, TimePassesPreserves
<1>4. ASSUME NEW c \in Sweeps, SweepStep(c) PROVE ConditionalInv'
  BY <1>4, SweepPreserves
<1>5. ASSUME NEW c \in CancelCalls \cup ExecuteCalls, LookUp(c) PROVE ConditionalInv'
  BY <1>5, LookUpPreserves
<1>6. ASSUME NEW c \in UpdateCalls, UpdateReads(c) \/ UpdateApplies(c) PROVE ConditionalInv'
  BY <1>6, UpdateReadsPreserves, UpdateAppliesPreserves
<1>7. ASSUME NEW c \in OrderCalls, LockAndCheck(c) \/ Commit(c) \/ Interrupted(c) PROVE ConditionalInv'
  BY <1>7, LockAndCheckPreserves, CommitPreserves, InterruptedPreserves, ZenonT(30)
<1>8. CASE UNCHANGED conditionalVars
  BY <1>8 DEF conditionalVars, ConditionalInv, ConditionalTypeOK, LockInv, VersionInv, RecordedInv,
     OneOutcome, EvaluateConditionGroups, EvaluateSingleGroup, EvaluateSingleCondition
<1>. QED
  BY <1>1, <1>2, <1>3, <1>4, <1>5, <1>6, <1>7, <1>8 DEF ConditionalNext, OrderCallStep

\* ConditionalInv holds throughout.
LEMMA ConditionalInvariant == ConditionalSpec => []ConditionalInv
BY ConditionalInitial, ConditionalStep, PTL DEF ConditionalSpec

\* A conditional order is filled at most once and has one outcome, and the outbox says
\* which: for any number of sweeps, cancels, edits and manual executions.
THEOREM OutcomeIsSingle == ConditionalSpec => []OneOutcome
<1>1. ConditionalInv => OneOutcome
  BY ZenonT(30) DEF ConditionalInv, RecordedInv
<1>. QED  BY <1>1, ConditionalInvariant, PTL

\* What TermsAreSettled says of the row, and of one step.
Unsettled ==
    \/ order.status \in Terminal /\ order' # order
    \/ /\ order.status = "TRIGGERED"
       /\ <<order.conditions, order.expiresAt>> # <<order'.conditions, order'.expiresAt>>

SettledTerms ==
    /\ Unsettled => \E c \in UpdateCalls : AppliesAhead(c)
    /\ \A c \in Sweeps :
          at[c] = "trigger" /\ at'[c] = "triggering" /\ loaded[c].version = order.version
             => EvaluateConditionGroups(order.conditions)

\* No step breaks SettledTerms: an update whose version is the one it read or an older
\* one, and that is applied, finds the order live.
LEMMA TermsStep == ConditionalInv /\ [ConditionalNext]_conditionalVars => [SettledTerms]_conditionalVars
<1>. SUFFICES ASSUME ConditionalInv, ConditionalNext PROVE SettledTerms
  BY DEF SettledTerms
<1>1. \A c \in Sweeps :
         at[c] = "trigger" /\ at'[c] = "triggering" /\ loaded[c].version = order.version
            => EvaluateConditionGroups(order.conditions)
  BY DEF ConditionalInv, VersionInv
<1>. DEFINE Settles == Unsettled => \E c \in UpdateCalls : AppliesAhead(c)
<1>2. order \in OrderRow
  BY DEF ConditionalInv, ConditionalTypeOK
<1>3. ASSUME order' = order PROVE Settles
  BY <1>3 DEF Unsettled
<1>4. ASSUME CreateOrder PROVE Settles
  BY <1>4 DEF CreateOrder, NoOrder, Terminal, Unsettled
<1>5. ASSUME ExpireStaleOrders PROVE Settles
  BY <1>5 DEF ExpireStaleOrders, Live, Terminal, Unsettled
<1>6. ASSUME NEW c \in UpdateCalls, UpdateApplies(c) PROVE Settles
  <2>1. CASE loaded[c].version < sent[c]
    BY <1>6, <2>1 DEF AppliesAhead
  <2>2. CASE order.version # sent[c]
    BY <1>6, <2>2, <1>3 DEF UpdateApplies
  <2>3. CASE order.version = sent[c] /\ ~(loaded[c].version < sent[c])
    <3>1. c \in OrderCalls /\ at[c] = "apply"
      BY <1>6, Zenon DEF UpdateApplies, OrderCalls
    <3>2. loaded[c].version <= order.version
      BY <3>1, Zenon DEF ConditionalInv, VersionInv
    <3>3. loaded[c].version \in Nat /\ order.version \in Nat
      BY <3>1 DEF ConditionalInv, ConditionalTypeOK, OrderRow
    <3>4. loaded[c].version = order.version
      BY <2>3, <3>2, <3>3
    <3>5. order.status \in Live
      BY <3>1, <3>4, Zenon DEF ConditionalInv, VersionInv
    <3>. QED  BY <3>5 DEF Live, Terminal, Unsettled
  <2>. QED  BY <2>1, <2>2, <2>3
<1>7. ASSUME NEW c \in OrderCalls, Commit(c) PROVE Settles
  <2>1. PICK to \in {"TRIGGERED", "CANCELLED", "FILLED"} :
           /\ to \in ALLOWED_ORDER_TRANSITIONS[order.status]
           /\ order' = [order EXCEPT !.status = to, !.version = order.version + 1]
    BY <1>7, CommitWrites, Zenon
  <2>2. order.status \notin Terminal
    BY <1>2, <2>1, TransitionTable DEF OrderRow, Live, Terminal
  <2>3. order'.conditions = order.conditions /\ order'.expiresAt = order.expiresAt
    BY <1>2, <2>1 DEF OrderRow
  <2>. QED  BY <2>2, <2>3 DEF Unsettled
<1>8. \/ CreateOrder \/ ExpireStaleOrders \/ order' = order
      \/ \E c \in UpdateCalls : UpdateApplies(c)
      \/ \E c \in OrderCalls : Commit(c)
  BY DEF ConditionalNext, TimePasses, SweepStep, SweepReads, SweepEvaluates, LookUp, UpdateReads,
         OrderCallStep, LockAndCheck, Interrupted
<1>9. Settles
  <2>. HIDE DEF Settles
  <2>. QED  BY <1>3, <1>4, <1>5, <1>6, <1>7, <1>8
<1>. QED  BY <1>1, <1>9 DEF SettledTerms

\* Only an update whose client sent a version ahead of the one update() read changes an
\* order that has ended or the terms of a triggered one, and a sweep that finds the
\* version it read triggers only on conditions that are met.
THEOREM TermsSettled == ConditionalSpec => TermsAreSettled
<1>1. ConditionalInv /\ [ConditionalNext]_conditionalVars => [SettledTerms]_conditionalVars
  BY TermsStep
<1>. QED  BY <1>1, ConditionalInvariant, PTL DEF ConditionalSpec, TermsAreSettled, SettledTerms, Unsettled

-----------------------------------------------------------------------------
(* Closing a position *)

\* What a call has loaded of a position.
Loaded == [amount : 1..Total, closed : BOOLEAN, version : Nat \ {0}]

\* Who is where, and with what.
CallInv ==
    \A p \in Calls :
        /\ pc[p] \in {"token", "guard", "refetch"} => p \in Closers
        /\ pc[p] = "saveParent" => p \in Partials
        /\ InFlight(p) => copy[p] \in Loaded
        /\ p \in Partials /\ pc[p] \in {"save", "saveParent"} => part[p] < copy[p].amount

\* Only the risk cron closes without an event; a copy that says "closed" is of a row
\* that was.
Accounted == event \/ \E p \in Ticks : pc[p] = "done"
\* A closed position, in the row or in a copy, is accounted for.
AnnouncedInv ==
    /\ closed => Accounted
    /\ \A p \in Calls : copy[p].closed => Accounted

\* Until a version is written back, the version of the row is past every token that
\* was let through.
TokenInv ==
    versions = "forward" => \A p \in Closers : PastGuard(p) => expected[p] < version

\* The books while a call is between the chain and its save.
Balanced == amount + children = Total /\ Remaining + chain = Total

\* Where a call in flight stands tells which of the row, the chain and the child
\* position it has already written.
CalmAt(p) ==
    /\ ~closed
    /\ pc[p] # "refetch" => copy[p].amount = amount /\ ~copy[p].closed
    /\ pc[p] \in {"guard", "refetch", "chain"} \/ p \in Setters => Balanced
    /\ p \in Closers \cup Ticks /\ pc[p] = "save" =>
          amount + children = Total /\ chain = Total
    /\ p \in Partials /\ pc[p] = "save" =>
          amount + children = Total /\ amount + chain = Total + part[p]
    /\ pc[p] = "saveParent" =>
          amount + children = Total + part[p] /\ amount + chain = Total + part[p]

\* In a calm run one call is in flight at a time, and between calls the books balance.
CalmInv ==
    weather = "calm" =>
        /\ \A p, q \in Calls : InFlight(p) /\ InFlight(q) => p = q
        /\ Quiet => Balanced
        /\ \A p \in Calls : InFlight(p) => CalmAt(p)

\* The inductive invariant of the position.
PositionInv == PositionTypeOK /\ CallInv /\ AnnouncedInv /\ TokenInv /\ TokenPassesOnce /\ CalmInv

\* It holds of an open position.
LEMMA PositionInitially == PositionInit => PositionInv
<1> SUFFICES ASSUME PositionInit PROVE PositionInv
  OBVIOUS
<1>1. PositionTypeOK
  <2>1. NoEntity \in Entity
    BY DEF NoEntity, Entity
  <2>2. pc \in [Calls -> Labels]
    BY DEF PositionInit, Labels
  <2>3. closed \in BOOLEAN /\ event \in BOOLEAN
    BY Zenon DEF PositionInit
  <2>4. amount \in 1..Total /\ part \in [Calls -> 0..Total] /\ chain \in Nat /\ children \in Nat
    BY TotalAssumption DEF PositionInit
  <2> QED
    BY <2>1, <2>2, <2>3, <2>4 DEF PositionInit, PositionTypeOK
<1>2. \A p \in Calls : ~InFlight(p) /\ ~copy[p].closed /\ pc[p] \in {"token", "load"}
  BY DEF PositionInit, InFlight, NoEntity
<1>3. CallInv /\ AnnouncedInv /\ TokenInv /\ TokenPassesOnce
  BY <1>2 DEF PositionInit, CallInv, AnnouncedInv, TokenInv, TokenPassesOnce, PastGuard, InFlight, Calls
<1>4. CalmInv
  BY <1>2, TotalAssumption DEF PositionInit, CalmInv, CalmAt, Balanced, Remaining
<1> QED
  BY <1>1, <1>3, <1>4 DEF PositionInv

\* Types and places.
LEMMA PlaceKept ==
    ASSUME PositionInv, [PositionNext]_positionVars PROVE (PositionTypeOK /\ CallInv)'
<1> USE TotalAssumption, CallersAssumption
        DEF PositionInv, PositionTypeOK, CallInv, Loaded, Entity, NoEntity, Labels,
            InFlight, Row, rowVars, Calls
<1>1. ASSUME NEW p \in Calls, ReadToken(p) PROVE (PositionTypeOK /\ CallInv)'
  <2>1. PICK v \in Tokens \cup {0, version} : expected' = [expected EXCEPT ![p] = v]
    BY <1>1, Zenon DEF ReadToken
  <2>2. v \in Nat
    BY TokensAssumption
  <2> QED
    BY <1>1, <2>1, <2>2, ZenonT(30) DEF ReadToken, Goto
<1>2. ASSUME NEW p \in Calls, Load(p) PROVE (PositionTypeOK /\ CallInv)'
  <2>1. CASE closed
    <3>1. /\ pc' = [pc EXCEPT ![p] = "refused"] /\ copy' = [copy EXCEPT ![p] = NoEntity]
          /\ part' = [part EXCEPT ![p] = 0] /\ expected' = [expected EXCEPT ![p] = 0]
          /\ UNCHANGED <<amount, closed, version, event, chain, children, versions>>
          /\ weather' \in {"calm", "rough"}
      BY <1>2, <2>1, ZenonT(30) DEF Load, Goto, Return
    <3> HIDE DEF Row
    <3>2. PositionTypeOK'
      BY <3>1
    <3>3. CallInv'
      BY <3>1, ZenonT(30)
    <3> QED
      BY <3>2, <3>3
  <2>2. CASE ~closed
    <3>1. copy' = [copy EXCEPT ![p] = Row] /\ Row \in Loaded /\ Row \in Entity
      BY <1>2, <2>2 DEF Load
    <3>2. PICK l \in {"guard", "save", "chain"} :
            /\ pc' = [pc EXCEPT ![p] = l]
            /\ l = "guard" => p \in Closers
            /\ l = "save" => p \in Setters
      BY <1>2, <2>2 DEF Load, Goto
    <3>3. UNCHANGED <<amount, closed, version, event, chain, children, part, expected, versions>>
          /\ weather' \in {"calm", "rough"}
      BY <1>2, <2>2 DEF Load
    <3> HIDE DEF Row
    <3>4. PositionTypeOK'
      <4>1. pc' \in [Calls -> Labels] /\ copy' \in [Calls -> Entity]
        BY <3>1, <3>2, ZenonT(30)
      <4> QED
        BY <3>3, <4>1
    <3>5. CallInv'
      <4>1. \A q \in Calls : q # p => pc'[q] = pc[q] /\ copy'[q] = copy[q] /\ part'[q] = part[q]
        BY <3>1, <3>2, <3>3
      <4>2. pc'[p] = l /\ copy'[p] \in Loaded
        BY <3>1, <3>2, ZenonT(30)
      <4> QED
        BY <3>2, <4>1, <4>2
    <3> QED
      BY <3>4, <3>5
  <2> QED
    BY <2>1, <2>2, ZenonT(30)
<1>3. ASSUME NEW p \in Calls, Guard(p) PROVE (PositionTypeOK /\ CallInv)'
  BY <1>3 DEF Guard, Goto
<1>4. ASSUME NEW p \in Calls, GuardConflict(p) PROVE (PositionTypeOK /\ CallInv)'
  BY <1>4 DEF GuardConflict, Goto, Return
<1>5. ASSUME NEW p \in Calls, Refetch(p) PROVE (PositionTypeOK /\ CallInv)'
  BY <1>5 DEF Refetch, Goto
<1>6. ASSUME NEW p \in Calls, CloseOnChain(p) PROVE (PositionTypeOK /\ CallInv)'
  BY <1>6 DEF CloseOnChain, Goto
<1>7. ASSUME NEW p \in Calls, ClosePartOnChain(p) PROVE (PositionTypeOK /\ CallInv)'
  BY <1>7, SMTT(30) DEF ClosePartOnChain, Goto
<1>8. ASSUME NEW p \in Calls, ChainRefuses(p) PROVE (PositionTypeOK /\ CallInv)'
  BY <1>8, SMTT(30) DEF ChainRefuses, Goto, Return
<1>9. ASSUME NEW p \in Calls, SaveClosed(p) PROVE (PositionTypeOK /\ CallInv)'
  BY <1>9 DEF SaveClosed, Goto, SaveEntity, Return
<1>10. ASSUME NEW p \in Calls, SaveTriggered(p) PROVE (PositionTypeOK /\ CallInv)'
  BY <1>10 DEF SaveTriggered, Goto, SaveEntity, Return
<1>11. ASSUME NEW p \in Calls, SaveChild(p) PROVE (PositionTypeOK /\ CallInv)'
  BY <1>11 DEF SaveChild, Goto
<1>12. ASSUME NEW p \in Calls, SaveParent(p) PROVE (PositionTypeOK /\ CallInv)'
  BY <1>12, SMTT(30) DEF SaveParent, Goto, SaveEntity, Return
<1>13. ASSUME NEW p \in Calls, SaveLevels(p) PROVE (PositionTypeOK /\ CallInv)'
  BY <1>13 DEF SaveLevels, Goto, SaveEntity, Return
<1>14. ASSUME NEW p \in Calls, SaveFails(p) PROVE (PositionTypeOK /\ CallInv)'
  BY <1>14 DEF SaveFails, Goto, Return
<1>15. ASSUME NEW p \in Calls, ChainLosesAnswer(p) PROVE (PositionTypeOK /\ CallInv)'
  BY <1>15, SMTT(30) DEF ChainLosesAnswer, Goto, Return
<1>16. CASE UNCHANGED positionVars
  BY <1>16 DEF positionVars
<1> QED
  BY <1>1, <1>2, <1>3, <1>4, <1>5, <1>6, <1>7, <1>8, <1>9, <1>10, <1>11, <1>12, <1>13,
     <1>14, <1>15, <1>16, ZenonT(30)
     DEF PositionNext, CallStep

\* Announcements.
LEMMA AnnouncedKept ==
    ASSUME PositionInv, [PositionNext]_positionVars PROVE AnnouncedInv'
<1> USE CallersAssumption
        DEF PositionInv, PositionTypeOK, CallInv, AnnouncedInv, Accounted, Entity,
            NoEntity, Row, rowVars, Calls
<1>1. ASSUME NEW p \in Calls, ReadToken(p) PROVE AnnouncedInv'
  BY <1>1 DEF ReadToken, Goto
<1>2. ASSUME NEW p \in Calls, Load(p) PROVE AnnouncedInv'
  BY <1>2 DEF Load, Goto, Return, Quiet
<1>3. ASSUME NEW p \in Calls, Guard(p) PROVE AnnouncedInv'
  BY <1>3, ZenonT(30) DEF Guard, Goto
<1>4. ASSUME NEW p \in Calls, GuardConflict(p) PROVE AnnouncedInv'
  BY <1>4, ZenonT(30) DEF GuardConflict, Goto, Return
<1>5. ASSUME NEW p \in Calls, Refetch(p) PROVE AnnouncedInv'
  BY <1>5 DEF Refetch, Goto
<1>6. ASSUME NEW p \in Calls, CloseOnChain(p) PROVE AnnouncedInv'
  BY <1>6, ZenonT(30) DEF CloseOnChain, Goto
<1>7. ASSUME NEW p \in Calls, ClosePartOnChain(p) PROVE AnnouncedInv'
  BY <1>7, ZenonT(30) DEF ClosePartOnChain, Goto
<1>8. ASSUME NEW p \in Calls, ChainRefuses(p) PROVE AnnouncedInv'
  BY <1>8, ZenonT(30) DEF ChainRefuses, Goto, Return
<1>9. ASSUME NEW p \in Calls, SaveClosed(p) PROVE AnnouncedInv'
  BY <1>9, ZenonT(30) DEF SaveClosed, Goto, SaveEntity, Return
<1>10. ASSUME NEW p \in Calls, SaveTriggered(p) PROVE AnnouncedInv'
  BY <1>10 DEF SaveTriggered, Goto, SaveEntity, Return
<1>11. ASSUME NEW p \in Calls, SaveChild(p) PROVE AnnouncedInv'
  BY <1>11 DEF SaveChild, Goto
<1>12. ASSUME NEW p \in Calls, SaveParent(p) PROVE AnnouncedInv'
  BY <1>12, ZenonT(30) DEF SaveParent, Goto, SaveEntity, Return
<1>13. ASSUME NEW p \in Calls, SaveLevels(p) PROVE AnnouncedInv'
  BY <1>13, ZenonT(30) DEF SaveLevels, Goto, SaveEntity, Return
<1>14. ASSUME NEW p \in Calls, SaveFails(p) PROVE AnnouncedInv'
  BY <1>14 DEF SaveFails, Goto, Return
<1>15. ASSUME NEW p \in Calls, ChainLosesAnswer(p) PROVE AnnouncedInv'
  BY <1>15, ZenonT(30) DEF ChainLosesAnswer, Goto, Return
<1>16. CASE UNCHANGED positionVars
  BY <1>16 DEF positionVars
<1> QED
  BY <1>1, <1>2, <1>3, <1>4, <1>5, <1>6, <1>7, <1>8, <1>9, <1>10, <1>11, <1>12, <1>13,
     <1>14, <1>15, <1>16, ZenonT(30)
     DEF PositionNext, CallStep

\* A step that lets nobody through and writes no older version unnoticed.
LEMMA NobodyPasses ==
    ASSUME PositionInv, version' \in Nat,
           versions' = "forward" => versions = "forward" /\ version' >= version,
           \A q \in Closers : PastGuard(q)' => PastGuard(q) /\ expected'[q] = expected[q]
    PROVE  (TokenInv /\ TokenPassesOnce)'
<1>1. TokenPassesOnce'
  BY Zenon DEF PositionInv, TokenPassesOnce
<1>2. \A q \in Closers : expected[q] \in Nat
  BY DEF PositionInv, PositionTypeOK, Calls
<1>3. version \in Nat
  BY DEF PositionInv, PositionTypeOK
<1>4. TokenInv'
  <2> SUFFICES ASSUME versions' = "forward", NEW q \in Closers, PastGuard(q)'
               PROVE  expected'[q] < version'
    BY Zenon DEF TokenInv
  <2>1. PastGuard(q) /\ expected'[q] = expected[q] /\ versions = "forward" /\ version' >= version
    BY Zenon
  <2>2. expected[q] < version
    BY <2>1, Zenon DEF PositionInv, TokenInv
  <2> QED
    BY <2>1, <2>2, <1>2, <1>3
<1> QED
  BY <1>1, <1>4

\* The last step of a call saves a version, and the token it had is kept.
LEMMA SavesPassNobody ==
    ASSUME PositionInv, NEW p \in Calls, NEW a, NEW c, copy[p].version \in Nat,
           SaveEntity(a, c, copy[p].version), Return(p, "done"), pc[p] \in {"save", "saveParent"},
           pc[p] = "saveParent" => p \notin Closers
    PROVE  (TokenInv /\ TokenPassesOnce)'
<1>1. pc' = [pc EXCEPT ![p] = "done"] /\ expected' = [expected EXCEPT ![p] = expected[p]]
  BY DEF Return, Goto
<1>2. expected' = expected /\ \A q \in Closers : q # p => pc'[q] = pc[q]
  BY <1>1 DEF PositionInv, PositionTypeOK, Calls
<1>3. \A q \in Closers : PastGuard(q)' => PastGuard(q) /\ expected'[q] = expected[q]
  BY <1>2, Zenon DEF PastGuard
<1>4. version' \in Nat /\ (versions' = "forward" => versions = "forward" /\ version' >= version)
  BY DEF SaveEntity, PositionInv, PositionTypeOK
<1> QED
  BY <1>3, <1>4, NobodyPasses

\* A close at the guard with the version of the row has a token that nobody else has
\* used.
LEMMA TokensKept ==
    ASSUME PositionInv, [PositionNext]_positionVars PROVE (TokenInv /\ TokenPassesOnce)'
<1> USE CallersAssumption, TokensAssumption
        DEF PositionInv, PositionTypeOK, CallInv, TokenInv, TokenPassesOnce, PastGuard,
            rowVars, Calls, Labels
<1>1. ASSUME NEW p \in Calls, ReadToken(p) PROVE (TokenInv /\ TokenPassesOnce)'
  BY <1>1 DEF ReadToken, Goto
<1>2. ASSUME NEW p \in Calls, Load(p) PROVE (TokenInv /\ TokenPassesOnce)'
  BY <1>2 DEF Load, Goto, Return
<1>3. ASSUME NEW p \in Calls, Guard(p) PROVE (TokenInv /\ TokenPassesOnce)'
  BY <1>3 DEF Guard, Goto
<1>4. ASSUME NEW p \in Calls, GuardConflict(p) PROVE (TokenInv /\ TokenPassesOnce)'
  BY <1>4 DEF GuardConflict, Goto, Return
<1>5. ASSUME NEW p \in Calls, Refetch(p) PROVE (TokenInv /\ TokenPassesOnce)'
  BY <1>5 DEF Refetch, Goto
<1>6. ASSUME NEW p \in Calls, CloseOnChain(p) PROVE (TokenInv /\ TokenPassesOnce)'
  BY <1>6 DEF CloseOnChain, Goto
<1>7. ASSUME NEW p \in Calls, ClosePartOnChain(p) PROVE (TokenInv /\ TokenPassesOnce)'
  BY <1>7 DEF ClosePartOnChain, Goto
<1>8. ASSUME NEW p \in Calls, ChainRefuses(p) PROVE (TokenInv /\ TokenPassesOnce)'
  BY <1>8 DEF ChainRefuses, Goto, Return
<1>9. ASSUME NEW p \in Calls, SaveClosed(p) PROVE (TokenInv /\ TokenPassesOnce)'
  <2>1. /\ SaveEntity(copy[p].amount, TRUE, copy[p].version) /\ Return(p, "done")
        /\ pc[p] \in {"save", "saveParent"} /\ (pc[p] = "saveParent" => p \notin Closers)
    BY <1>9 DEF SaveClosed
  <2>2. copy[p].version \in Nat
    BY DEF Entity
  <2> QED
    BY <2>1, <2>2, SavesPassNobody, Zenon
<1>10. ASSUME NEW p \in Calls, SaveTriggered(p) PROVE (TokenInv /\ TokenPassesOnce)'
  <2>1. /\ SaveEntity(copy[p].amount, TRUE, copy[p].version) /\ Return(p, "done")
        /\ pc[p] \in {"save", "saveParent"} /\ (pc[p] = "saveParent" => p \notin Closers)
    BY <1>10 DEF SaveTriggered
  <2>2. copy[p].version \in Nat
    BY DEF Entity
  <2> QED
    BY <2>1, <2>2, SavesPassNobody, Zenon
<1>11. ASSUME NEW p \in Calls, SaveChild(p) PROVE (TokenInv /\ TokenPassesOnce)'
  BY <1>11 DEF SaveChild, Goto
<1>12. ASSUME NEW p \in Calls, SaveParent(p) PROVE (TokenInv /\ TokenPassesOnce)'
  <2>1. /\ SaveEntity(copy[p].amount - part[p], copy[p].closed, copy[p].version) /\ Return(p, "done")
        /\ pc[p] \in {"save", "saveParent"} /\ (pc[p] = "saveParent" => p \notin Closers)
    BY <1>12 DEF SaveParent
  <2>2. copy[p].version \in Nat
    BY DEF Entity
  <2> QED
    BY <2>1, <2>2, SavesPassNobody, Zenon
<1>13. ASSUME NEW p \in Calls, SaveLevels(p) PROVE (TokenInv /\ TokenPassesOnce)'
  <2>1. /\ SaveEntity(copy[p].amount, copy[p].closed, copy[p].version) /\ Return(p, "done")
        /\ pc[p] \in {"save", "saveParent"} /\ (pc[p] = "saveParent" => p \notin Closers)
    BY <1>13 DEF SaveLevels
  <2>2. copy[p].version \in Nat
    BY DEF Entity
  <2> QED
    BY <2>1, <2>2, SavesPassNobody, Zenon
<1>14. ASSUME NEW p \in Calls, SaveFails(p) PROVE (TokenInv /\ TokenPassesOnce)'
  BY <1>14 DEF SaveFails, Goto, Return
<1>15. ASSUME NEW p \in Calls, ChainLosesAnswer(p) PROVE (TokenInv /\ TokenPassesOnce)'
  BY <1>15 DEF ChainLosesAnswer, Goto, Return
<1>16. CASE UNCHANGED positionVars
  BY <1>16 DEF positionVars
<1> QED
  BY <1>1, <1>2, <1>3, <1>4, <1>5, <1>6, <1>7, <1>8, <1>9, <1>10, <1>11, <1>12, <1>13,
     <1>14, <1>15, <1>16, ZenonT(30)
     DEF PositionNext, CallStep

\* In a calm run a call that is in flight is the only one.
LEMMA CalmAlone ==
    ASSUME PositionInv, weather = "calm", NEW p \in Calls, InFlight(p)
    PROVE  CalmAt(p) /\ \A q \in Calls : InFlight(q) => q = p
BY Zenon DEF PositionInv, CalmInv

\* A step of that call after which it is still in flight.
LEMMA CalmGoesOn ==
    ASSUME NEW p \in Calls,
           weather' = "calm" =>
              InFlight(p)' /\ CalmAt(p)' /\ \A q \in Calls : InFlight(q)' => q = p
    PROVE  CalmInv'
BY Zenon DEF CalmInv, Quiet

\* Its last step.
LEMMA CalmEnds ==
    ASSUME weather' = "calm" => Balanced' /\ \A q \in Calls : ~InFlight(q)'
    PROVE  CalmInv'
BY Zenon DEF CalmInv

\* The other calls are not moved.
LEMMA OthersStay ==
    ASSUME PositionInv, weather = "calm", NEW p \in Calls, InFlight(p), NEW l,
           pc' = [pc EXCEPT ![p] = l]
    PROVE  pc'[p] = l /\ \A q \in Calls : InFlight(q)' => q = p
<1>1. \A q \in Calls : InFlight(q) => q = p
  BY CalmAlone
<1>2. pc'[p] = l /\ \A q \in Calls : q # p => pc'[q] = pc[q]
  BY DEF PositionInv, PositionTypeOK
<1> QED
  BY <1>1, <1>2, Zenon DEF InFlight

\* The numbers the balance is about.
LEMMA Amounts ==
    ASSUME PositionInv, NEW p \in Calls
    PROVE  amount \in Nat /\ chain \in Nat /\ children \in Nat /\ part[p] \in Nat /\ Total \in Nat
BY TotalAssumption DEF PositionInv, PositionTypeOK

\* The books of a calm run.
LEMMA CalmKept ==
    ASSUME PositionInv, [PositionNext]_positionVars PROVE CalmInv'
<1>1. ASSUME NEW p \in Calls, CloseOnChain(p) PROVE CalmInv'
  <2>1. /\ chain' = chain + copy[p].amount /\ pc' = [pc EXCEPT ![p] = "save"] /\ pc[p] = "chain"
        /\ UNCHANGED <<amount, closed, children, copy, part, weather>> /\ p \in Closers \cup Ticks
    BY <1>1 DEF CloseOnChain, Goto, rowVars
  <2> SUFFICES ASSUME weather = "calm"
               PROVE  InFlight(p)' /\ CalmAt(p)' /\ \A q \in Calls : InFlight(q)' => q = p
    BY <2>1, CalmGoesOn
  <2>2. pc'[p] = "save" /\ \A q \in Calls : InFlight(q)' => q = p
    BY <2>1, OthersStay, ZenonT(30) DEF InFlight
  <2>3. /\ ~closed /\ copy[p].amount = amount /\ ~copy[p].closed
        /\ amount + children = Total /\ amount + chain = Total
    BY <2>1, CalmAlone DEF CalmAt, InFlight, Balanced, Remaining
  <2>4. chain' = Total
    <3>1. chain' = chain + amount
      BY <2>1, <2>3, Zenon
    <3>2. amount + chain = Total /\ amount \in Nat /\ chain \in Nat
      BY <2>3, Amounts, Zenon
    <3> QED
      BY <3>1, <3>2
  <2>5. p \notin Partials \cup Setters
    BY <2>1, CallersAssumption
  <2> QED
    BY <2>1, <2>2, <2>3, <2>4, <2>5, ZenonT(30) DEF CalmAt, InFlight
<1>2. ASSUME NEW p \in Calls, ClosePartOnChain(p) PROVE CalmInv'
  <2>1. /\ chain' = chain + part'[p] /\ pc' = [pc EXCEPT ![p] = "save"] /\ pc[p] = "chain"
        /\ UNCHANGED <<amount, closed, children, copy, weather>> /\ p \in Partials
        /\ part'[p] \in Nat
    BY <1>2, TotalAssumption DEF ClosePartOnChain, Goto, rowVars, PositionInv, PositionTypeOK
  <2> SUFFICES ASSUME weather = "calm"
               PROVE  InFlight(p)' /\ CalmAt(p)' /\ \A q \in Calls : InFlight(q)' => q = p
    BY <2>1, CalmGoesOn
  <2>2. pc'[p] = "save" /\ \A q \in Calls : InFlight(q)' => q = p
    BY <2>1, OthersStay, ZenonT(30) DEF InFlight
  <2>3. /\ ~closed /\ copy[p].amount = amount /\ ~copy[p].closed
        /\ amount + children = Total /\ amount + chain = Total
    BY <2>1, CalmAlone DEF CalmAt, InFlight, Balanced, Remaining
  <2>4. amount + chain' = Total + part'[p]
    BY <2>1, <2>3, Amounts
  <2>5. p \notin Closers \cup Ticks \cup Setters
    BY <2>1, CallersAssumption
  <2> QED
    BY <2>1, <2>2, <2>3, <2>4, <2>5 DEF CalmAt, InFlight
<1>3. ASSUME NEW p \in Calls, SaveClosed(p) PROVE CalmInv'
  <2>1. /\ amount' = copy[p].amount /\ closed' = TRUE /\ UNCHANGED <<chain, children, weather>>
        /\ pc' = [pc EXCEPT ![p] = "done"] /\ pc[p] = "save" /\ p \in Closers \cup Ticks
    BY <1>3 DEF SaveClosed, Goto, SaveEntity, Return
  <2> SUFFICES ASSUME weather = "calm" PROVE Balanced' /\ \A q \in Calls : ~InFlight(q)'
    BY <2>1, CalmEnds
  <2>2. pc'[p] = "done" /\ \A q \in Calls : InFlight(q)' => q = p
    BY <2>1, OthersStay, Zenon DEF InFlight
  <2>3. copy[p].amount = amount /\ amount + children = Total /\ chain = Total
    BY <2>1, CalmAlone, ZenonT(30) DEF CalmAt, InFlight
  <2>4. Balanced'
    BY <2>1, <2>3, Amounts DEF Balanced, Remaining
  <2> QED
    BY <2>2, <2>4 DEF InFlight
<1>4. ASSUME NEW p \in Calls, SaveTriggered(p) PROVE CalmInv'
  <2>1. /\ amount' = copy[p].amount /\ closed' = TRUE /\ UNCHANGED <<chain, children, weather>>
        /\ pc' = [pc EXCEPT ![p] = "done"] /\ pc[p] = "save" /\ p \in Closers \cup Ticks
    BY <1>4, ZenonT(30) DEF SaveTriggered, Goto, SaveEntity, Return
  <2> SUFFICES ASSUME weather = "calm" PROVE Balanced' /\ \A q \in Calls : ~InFlight(q)'
    BY <2>1, CalmEnds
  <2>2. pc'[p] = "done" /\ \A q \in Calls : InFlight(q)' => q = p
    BY <2>1, OthersStay, ZenonT(30) DEF InFlight
  <2>3. copy[p].amount = amount /\ amount + children = Total /\ chain = Total
    BY <2>1, CalmAlone, ZenonT(30) DEF CalmAt, InFlight
  <2>4. Balanced'
    BY <2>1, <2>3, Amounts DEF Balanced, Remaining
  <2> QED
    BY <2>2, <2>4 DEF InFlight
<1>5. ASSUME NEW p \in Calls, SaveChild(p) PROVE CalmInv'
  <2>1. /\ children' = children + part[p] /\ pc' = [pc EXCEPT ![p] = "saveParent"] /\ pc[p] = "save"
        /\ UNCHANGED <<amount, closed, chain, copy, part, weather>> /\ p \in Partials
    BY <1>5, Zenon DEF SaveChild, Goto, rowVars
  <2> SUFFICES ASSUME weather = "calm"
               PROVE  InFlight(p)' /\ CalmAt(p)' /\ \A q \in Calls : InFlight(q)' => q = p
    BY <2>1, CalmGoesOn
  <2>2. pc'[p] = "saveParent" /\ \A q \in Calls : InFlight(q)' => q = p
    BY <2>1, OthersStay, Zenon DEF InFlight
  <2>3. /\ ~closed /\ copy[p].amount = amount /\ ~copy[p].closed
        /\ amount + children = Total /\ amount + chain = Total + part[p]
    BY <2>1, CalmAlone DEF CalmAt, InFlight
  <2>4. amount + children' = Total + part[p]
    BY <2>1, <2>3, Amounts
  <2>5. p \notin Closers \cup Ticks \cup Setters
    BY <2>1, CallersAssumption
  <2> QED
    BY <2>1, <2>2, <2>3, <2>4, <2>5, ZenonT(30) DEF CalmAt, InFlight
<1>6. ASSUME NEW p \in Calls, SaveParent(p) PROVE CalmInv'
  <2>1. /\ amount' = copy[p].amount - part[p] /\ closed' = copy[p].closed
        /\ pc' = [pc EXCEPT ![p] = "done"] /\ pc[p] = "saveParent" /\ UNCHANGED <<chain, children, weather>>
    BY <1>6 DEF SaveParent, Goto, SaveEntity, Return
  <2> SUFFICES ASSUME weather = "calm" PROVE Balanced' /\ \A q \in Calls : ~InFlight(q)'
    BY <2>1, CalmEnds
  <2>2. pc'[p] = "done" /\ \A q \in Calls : InFlight(q)' => q = p
    BY <2>1, OthersStay, ZenonT(30) DEF InFlight
  <2>3. /\ copy[p].amount = amount /\ ~copy[p].closed
        /\ amount + children = Total + part[p] /\ amount + chain = Total + part[p]
    BY <2>1, CalmAlone DEF CalmAt, InFlight
  <2>4. Balanced'
    BY <2>1, <2>3, Amounts DEF Balanced, Remaining
  <2> QED
    BY <2>2, <2>4 DEF InFlight
<1> USE TotalAssumption, CallersAssumption
        DEF PositionInv, PositionTypeOK, CallInv, CalmInv, CalmAt, Balanced, Remaining, Quiet,
            InFlight, Entity, NoEntity, Row, rowVars, Calls
<1>7. ASSUME NEW p \in Calls, ReadToken(p) PROVE CalmInv'
  BY <1>7, ZenonT(30) DEF ReadToken, Goto
<1>8. ASSUME NEW p \in Calls, Load(p) PROVE CalmInv'
  BY <1>8 DEF Load, Goto, Return
<1>9. ASSUME NEW p \in Calls, Guard(p) PROVE CalmInv'
  BY <1>9, ZenonT(30) DEF Guard, Goto
<1>10. ASSUME NEW p \in Calls, GuardConflict(p) PROVE CalmInv'
  BY <1>10, ZenonT(30) DEF GuardConflict, Goto, Return
<1>11. ASSUME NEW p \in Calls, Refetch(p) PROVE CalmInv'
  BY <1>11, ZenonT(30) DEF Refetch, Goto
<1>12. ASSUME NEW p \in Calls, ChainRefuses(p) PROVE CalmInv'
  BY <1>12, ZenonT(30) DEF ChainRefuses, Goto, Return
<1>13. ASSUME NEW p \in Calls, SaveLevels(p) PROVE CalmInv'
  BY <1>13, ZenonT(30) DEF SaveLevels, Goto, SaveEntity, Return
<1>14. ASSUME NEW p \in Calls, SaveFails(p) PROVE CalmInv'
  BY <1>14, ZenonT(30) DEF SaveFails, Goto, Return
<1>15. ASSUME NEW p \in Calls, ChainLosesAnswer(p) PROVE CalmInv'
  BY <1>15, ZenonT(30) DEF ChainLosesAnswer, Goto, Return
<1>16. CASE UNCHANGED positionVars
  BY <1>16, Zenon DEF positionVars
<1> QED
  BY <1>1, <1>2, <1>3, <1>4, <1>5, <1>6, <1>7, <1>8, <1>9, <1>10, <1>11, <1>12, <1>13,
     <1>14, <1>15, <1>16, ZenonT(30)
     DEF PositionNext, CallStep

\* PositionInv holds throughout.
LEMMA PositionInvariance == PositionSpec => []PositionInv
<1>1. PositionInv /\ [PositionNext]_positionVars => PositionInv'
  BY PlaceKept, AnnouncedKept, TokensKept, CalmKept DEF PositionInv
<1> QED
  BY <1>1, PositionInitially, PTL DEF PositionSpec

\* A position that its owner closed is announced, for any number of racing closes,
\* partial closes, settings and runs of the cron, whatever the chain or the database
\* refuse.
THEOREM ClosesAreAnnounced == PositionSpec => []ClosedIsAnnounced
<1>1. PositionInv => ClosedIsAnnounced
  BY DEF PositionInv, AnnouncedInv, Accounted, ClosedIsAnnounced
<1> QED
  BY <1>1, PositionInvariance, PTL

\* Calls that come one by one keep the row, the children and the chain in balance,
\* for a position of any size.
THEOREM BooksAreBalanced == PositionSpec => []BooksBalance
<1>1. PositionInv => BooksBalance
  BY TotalAssumption DEF PositionInv, PositionTypeOK, CalmInv, Balanced, BooksBalance, Remaining
<1> QED
  BY <1>1, PositionInvariance, PTL

\* A version token lets one close through, for any number of closes and of calls that
\* race with them, until a stale save puts an older version back.
THEOREM TokensPassOnce == PositionSpec => []TokenPassesOnce
<1>1. PositionInv => TokenPassesOnce
  BY DEF PositionInv
<1> QED
  BY <1>1, PositionInvariance, PTL
=============================================================================
