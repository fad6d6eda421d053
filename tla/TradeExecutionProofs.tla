------------------------- MODULE TradeExecutionProofs --------------------------
(***************************************************************************)
(* Proofs about the way of a trade from the request to the chain and to    *)
(* its listeners: IdempotentRequests, for any requests, bodies and         *)
(* replicas; TradeExecution and TradeEvents, for any set of trades and     *)
(* restores and any set of faults; and TradeSaga, for any set of faults.   *)
(***************************************************************************)
EXTENDS IdempotentRequests, TradeEvents, TradeSaga, TLAPS

-----------------------------------------------------------------------------
(* Requests with an idempotency key *)

\* Where a request is that executes.
OwnLegs == {"handler", "store", "settle"}

\* inFlight names the one request of the replica that executes.
ExecutionInv ==
    /\ \A p \in KeyReplicas : inFlight[p] # NoRequest =>
          servedBy[inFlight[p]] = p /\ leg[inFlight[p]] \in OwnLegs
    /\ \A r \in KeyedRequests : leg[r] \in OwnLegs => inFlight[servedBy[r]] = r

\* What the cache holds, or held when it was read, was executed; an execution ends
\* before its entry expires.
EntryInv ==
    /\ \A x \in executed : leg[x] \in {"store", "settle", "respond", "done"}
    /\ \A x \in KeyedRequests : leg[x] \in {"store", "settle"} => x \in executed
    /\ \A x \in expired : leg[x] \in {"respond", "done"}
    /\ entry # NoRequest => entry \in executed
    /\ \A r \in KeyedRequests : cached[r] # NoRequest => cached[r] \in executed

\* As long as nothing ended the guarantee: who is served is served by one replica, a
\* handler runs only if no execution lives, and a living one is alone: once stored it
\* is the entry, which nobody is about to delete, and once it is over nobody is
\* about to execute.
SingleInv ==
    hitch \subseteq {"disconnect"} =>
        /\ \A q, r \in KeyedRequests : InProgress(q) /\ InProgress(r) => servedBy[q] = servedBy[r]
        /\ \A r \in KeyedRequests : leg[r] = "handler" => executed \subseteq expired
        /\ \A x, y \in executed \ expired : x = y
        /\ \A x \in executed \ expired : leg[x] # "store" =>
              entry = x /\ \A q \in KeyedRequests : leg[q] = "seen" => cached[q] \notin expired
        /\ \A x \in executed \ expired : leg[x] \in {"respond", "done"} =>
              \A q \in KeyedRequests : ~Missed(q)

\* The guard lets one request at a time into a replica.
AdmissionInv ==
    /\ guarded = "no" => busy = {}
    /\ guarded = "yes" =>
          /\ \A r \in KeyedRequests : InProgress(r) => servedBy[r] \in busy
          /\ \A q, r \in KeyedRequests :
                InProgress(q) /\ InProgress(r) /\ servedBy[q] = servedBy[r] => q = r

\* The parts that tie requests, executions and the entry together.
RecordsInv == KeyTypeOK /\ ExecutionInv /\ EntryInv
\* The parts about the guard.
GuardInv == AdmissionInv /\ AnswerIsOwn /\ BusyIsServed
\* The inductive invariant of the requests with one key.
KeyInv == RecordsInv /\ SingleInv /\ GuardInv

\* It holds before the first request.
LEMMA KeyInitially == KeyInit => KeyInv
BY RoutingsAssumption, NoRequestAssumption
   DEF KeyInit, KeyInv, RecordsInv, GuardInv, KeyTypeOK, Executions, ExecutionInv, OwnLegs,
   EntryInv, SingleInv,
       InProgress, Missed, AdmissionInv, AnswerIsOwn, BusyIsServed

\* Types, inFlight and the entries.
LEMMA RecordsKept ==
    ASSUME KeyInv, [KeyNext]_keyVars PROVE RecordsInv'
<1> USE RoutingsAssumption, NoRequestAssumption
        DEF KeyInv, routeVars, KeyTypeOK, Executions, RecordsInv, Hitches,
            ExecutionInv, OwnLegs, EntryInv
<1>1. ASSUME NEW r \in KeyedRequests, GuardRefuses(r) PROVE RecordsInv'
  BY <1>1 DEF GuardRefuses, Go
<1>2. ASSUME NEW r \in KeyedRequests, Admit(r) PROVE RecordsInv'
  BY <1>2 DEF Admit, Go, Hitch
<1>3. ASSUME NEW r \in KeyedRequests, ReadEntry(r) PROVE RecordsInv'
  BY <1>3 DEF ReadEntry, Go
<1>4. ASSUME NEW r \in KeyedRequests, ReadFails(r) PROVE RecordsInv'
  BY <1>4 DEF ReadFails, Refused, Act, Go
<1>5. ASSUME NEW r \in KeyedRequests, Replay(r) PROVE RecordsInv'
  BY <1>5 DEF Replay, Act, Go
<1>6. ASSUME NEW r \in KeyedRequests, RejectReuse(r) PROVE RecordsInv'
  BY <1>6 DEF RejectReuse, Refused, Act, Go
<1>7. ASSUME NEW r \in KeyedRequests, EvictExpired(r) PROVE RecordsInv'
  BY <1>7 DEF EvictExpired, Act, Go
<1>8. ASSUME NEW r \in KeyedRequests, EvictFails(r) PROVE RecordsInv'
  BY <1>8 DEF EvictFails, Act, Go
<1>9. ASSUME NEW r \in KeyedRequests, JoinExecution(r) PROVE RecordsInv'
  BY <1>9 DEF JoinExecution, Go, Missed
<1>10. ASSUME NEW r \in KeyedRequests, StartHandler(r) PROVE RecordsInv'
  BY <1>10 DEF StartHandler, Go, Missed
<1>11. ASSUME NEW r \in KeyedRequests, HandlerReturns(r) PROVE RecordsInv'
  BY <1>11 DEF HandlerReturns, Go
<1>12. ASSUME NEW r \in KeyedRequests, HandlerThrows(r) PROVE RecordsInv'
  BY <1>12 DEF HandlerThrows, Settle, Together
<1>13. ASSUME NEW r \in KeyedRequests, StoreEntry(r) PROVE RecordsInv'
  BY <1>13 DEF StoreEntry, Go, Hitch
<1>14. ASSUME NEW r \in KeyedRequests, StoreFails(r) PROVE RecordsInv'
  BY <1>14 DEF StoreFails, Hitch, Settle, Together
<1>15. ASSUME NEW r \in KeyedRequests, SettleExecution(r) PROVE RecordsInv'
  BY <1>15 DEF SettleExecution, Hitch, Settle, Together
<1>16. ASSUME NEW r \in KeyedRequests, Finish(r) PROVE RecordsInv'
  BY <1>16 DEF Finish, End, Go
<1>17. ASSUME NEW r \in KeyedRequests, Disconnect(r) PROVE RecordsInv'
  BY <1>17 DEF Disconnect, End, Go, Hitch
<1>18. ASSUME NEW r \in KeyedRequests, Expire(r) PROVE RecordsInv'
  BY <1>18 DEF Expire
<1>19. CASE DropExpired
  BY <1>19 DEF DropExpired
<1>20. ASSUME NEW p \in KeyReplicas, RestartReplica(p) PROVE RecordsInv'
  BY <1>20 DEF RestartReplica, Hitch, InProgress
<1>21. CASE UNCHANGED keyVars
  BY <1>21 DEF keyVars
<1> QED
  BY <1>1, <1>2, <1>3, <1>4, <1>5, <1>6, <1>7, <1>8, <1>9, <1>10, <1>11,
     <1>12, <1>13, <1>14, <1>15, <1>16, <1>17, <1>18, <1>19, <1>20, <1>21, ZenonT(30)
     DEF KeyNext, KeyStep

\* One execution lives.
LEMMA SingleKept ==
    ASSUME KeyInv, [KeyNext]_keyVars PROVE SingleInv'
<1> USE RoutingsAssumption, NoRequestAssumption
        DEF KeyInv, RecordsInv, routeVars, KeyTypeOK, Executions, SingleInv,
            EntryInv, ExecutionInv, OwnLegs, InProgress, Missed
<1>1. ASSUME NEW r \in KeyedRequests, GuardRefuses(r) PROVE SingleInv'
  BY <1>1 DEF GuardRefuses, Go
<1>2. ASSUME NEW r \in KeyedRequests, Admit(r) PROVE SingleInv'
  BY <1>2 DEF Admit, Go, Hitch, Together
<1>3. ASSUME NEW r \in KeyedRequests, ReadEntry(r) PROVE SingleInv'
  BY <1>3 DEF ReadEntry, Go
<1>4. ASSUME NEW r \in KeyedRequests, ReadFails(r) PROVE SingleInv'
  BY <1>4 DEF ReadFails, Refused, Act, Go
<1>5. ASSUME NEW r \in KeyedRequests, Replay(r) PROVE SingleInv'
  BY <1>5 DEF Replay, Act, Go
<1>6. ASSUME NEW r \in KeyedRequests, RejectReuse(r) PROVE SingleInv'
  BY <1>6 DEF RejectReuse, Refused, Act, Go
<1>7. ASSUME NEW r \in KeyedRequests, EvictExpired(r) PROVE SingleInv'
  BY <1>7 DEF EvictExpired, Act, Go
<1>8. ASSUME NEW r \in KeyedRequests, EvictFails(r) PROVE SingleInv'
  BY <1>8 DEF EvictFails, Act, Go
<1>9. ASSUME NEW r \in KeyedRequests, JoinExecution(r) PROVE SingleInv'
  BY <1>9 DEF JoinExecution, Go
<1>10. ASSUME NEW r \in KeyedRequests, StartHandler(r) PROVE SingleInv'
  BY <1>10 DEF StartHandler, Go
<1>11. ASSUME NEW r \in KeyedRequests, HandlerReturns(r) PROVE SingleInv'
  BY <1>11 DEF HandlerReturns, Go
<1>12. ASSUME NEW r \in KeyedRequests, HandlerThrows(r) PROVE SingleInv'
  BY <1>12 DEF HandlerThrows, Settle, Together
<1>13. ASSUME NEW r \in KeyedRequests, StoreEntry(r) PROVE SingleInv'
  BY <1>13 DEF StoreEntry, Go, Hitch, Together
<1>14. ASSUME NEW r \in KeyedRequests, StoreFails(r) PROVE SingleInv'
  BY <1>14 DEF StoreFails, Hitch, Settle, Together
<1>15. ASSUME NEW r \in KeyedRequests, SettleExecution(r) PROVE SingleInv'
  BY <1>15 DEF SettleExecution, Hitch, Settle, Together
<1>16. ASSUME NEW r \in KeyedRequests, Finish(r) PROVE SingleInv'
  BY <1>16 DEF Finish, End, Go
<1>17. ASSUME NEW r \in KeyedRequests, Disconnect(r) PROVE SingleInv'
  BY <1>17 DEF Disconnect, End, Go, Hitch
<1>18. ASSUME NEW r \in KeyedRequests, Expire(r) PROVE SingleInv'
  BY <1>18 DEF Expire
<1>19. CASE DropExpired
  BY <1>19 DEF DropExpired
<1>20. ASSUME NEW p \in KeyReplicas, RestartReplica(p) PROVE SingleInv'
  BY <1>20 DEF RestartReplica, Hitch
<1>21. CASE UNCHANGED keyVars
  BY <1>21 DEF keyVars
<1> QED
  BY <1>1, <1>2, <1>3, <1>4, <1>5, <1>6, <1>7, <1>8, <1>9, <1>10, <1>11,
     <1>12, <1>13, <1>14, <1>15, <1>16, <1>17, <1>18, <1>19, <1>20, <1>21, ZenonT(30)
     DEF KeyNext, KeyStep

\* What the guard admits, frees and lets be answered.
LEMMA GuardKept ==
    ASSUME KeyInv, [KeyNext]_keyVars PROVE GuardInv'
<1> USE RoutingsAssumption, NoRequestAssumption
        DEF KeyInv, RecordsInv, routeVars, KeyTypeOK, Executions, GuardInv,
            AdmissionInv, AnswerIsOwn, BusyIsServed, InProgress
<1>1. ASSUME NEW r \in KeyedRequests, GuardRefuses(r) PROVE GuardInv'
  <2>1. \A q \in KeyedRequests : InProgress(q)' <=> InProgress(q)
    BY <1>1 DEF GuardRefuses, Go
  <2>2. UNCHANGED <<guarded, busy, servedBy, reply, hitch>>
    BY <1>1 DEF GuardRefuses
  <2>3. GuardInv
    OBVIOUS
  <2> HIDE DEF KeyInv, InProgress
  <2> QED
    BY <2>1, <2>2, <2>3
<1>2. ASSUME NEW r \in KeyedRequests, Admit(r) PROVE GuardInv'
  BY <1>2 DEF Admit, Go, Hitch
<1>3. ASSUME NEW r \in KeyedRequests, ReadEntry(r) PROVE GuardInv'
  BY <1>3 DEF ReadEntry, Go
<1>4. ASSUME NEW r \in KeyedRequests, ReadFails(r) PROVE GuardInv'
  BY <1>4 DEF ReadFails, Refused, Act, Go
<1>5. ASSUME NEW r \in KeyedRequests, Replay(r) PROVE GuardInv'
  BY <1>5 DEF Replay, Act, Go
<1>6. ASSUME NEW r \in KeyedRequests, RejectReuse(r) PROVE GuardInv'
  BY <1>6 DEF RejectReuse, Refused, Act, Go
<1>7. ASSUME NEW r \in KeyedRequests, EvictExpired(r) PROVE GuardInv'
  BY <1>7 DEF EvictExpired, Act, Go
<1>8. ASSUME NEW r \in KeyedRequests, EvictFails(r) PROVE GuardInv'
  BY <1>8 DEF EvictFails, Act, Go
<1>9. ASSUME NEW r \in KeyedRequests, JoinExecution(r) PROVE GuardInv'
  BY <1>9 DEF JoinExecution, Go, Missed
<1>10. ASSUME NEW r \in KeyedRequests, StartHandler(r) PROVE GuardInv'
  BY <1>10 DEF StartHandler, Go, Missed
<1>11. ASSUME NEW r \in KeyedRequests, HandlerReturns(r) PROVE GuardInv'
  BY <1>11 DEF HandlerReturns, Go
<1>12. ASSUME NEW r \in KeyedRequests, HandlerThrows(r) PROVE GuardInv'
  BY <1>12 DEF HandlerThrows, Settle, Together
<1>13. ASSUME NEW r \in KeyedRequests, StoreEntry(r) PROVE GuardInv'
  BY <1>13 DEF StoreEntry, Go, Hitch
<1>14. ASSUME NEW r \in KeyedRequests, StoreFails(r) PROVE GuardInv'
  BY <1>14 DEF StoreFails, Hitch, Settle, Together
<1>15. ASSUME NEW r \in KeyedRequests, SettleExecution(r) PROVE GuardInv'
  BY <1>15 DEF SettleExecution, Hitch, Settle, Together
<1>16. ASSUME NEW r \in KeyedRequests, Finish(r) PROVE GuardInv'
  BY <1>16 DEF Finish, End, Go
<1>17. ASSUME NEW r \in KeyedRequests, Disconnect(r) PROVE GuardInv'
  BY <1>17 DEF Disconnect, End, Go, Hitch
<1>18. ASSUME NEW r \in KeyedRequests, Expire(r) PROVE GuardInv'
  BY <1>18 DEF Expire
<1>19. CASE DropExpired
  BY <1>19, ZenonT(30) DEF DropExpired
<1>20. ASSUME NEW p \in KeyReplicas, RestartReplica(p) PROVE GuardInv'
  BY <1>20 DEF RestartReplica, Hitch
<1>21. CASE UNCHANGED keyVars
  BY <1>21 DEF keyVars
<1> QED
  BY <1>1, <1>2, <1>3, <1>4, <1>5, <1>6, <1>7, <1>8, <1>9, <1>10, <1>11,
     <1>12, <1>13, <1>14, <1>15, <1>16, <1>17, <1>18, <1>19, <1>20, <1>21, ZenonT(30)
     DEF KeyNext, KeyStep

\* KeyInv holds throughout.
LEMMA KeyInvariance == KeySpec => []KeyInv
<1>1. KeyInv /\ [KeyNext]_keyVars => KeyInv'
  BY RecordsKept, SingleKept, GuardKept DEF KeyInv
<1> QED
  BY <1>1, KeyInitially, PTL DEF KeySpec

\* A key is executed once while its entry lives (resolve), for any number of requests,
\* replicas and bodies, until requests meet in two replicas, the cache answers late or
\* fails, or a replica restarts.
THEOREM ExecutedOnce == KeySpec => []OneExecution
<1>1. KeyInv => OneExecution
  BY DEF KeyInv, SingleInv, OneExecution
<1> QED
  BY <1>1, KeyInvariance, PTL

\* On a guarded route every answer is the response to the body that was sent, across
\* replicas, restarts and a cache that fails.
THEOREM AnswersAreOwn == KeySpec => []AnswerIsOwn
BY KeyInvariance, PTL DEF KeyInv, GuardInv

\* The guard refuses a key only while it is served, unless a client disconnected.
THEOREM BusyKeysAreServed == KeySpec => []BusyIsServed
BY KeyInvariance, PTL DEF KeyInv, GuardInv

-----------------------------------------------------------------------------
(* Executions, their outbox rows and their listeners *)

\* The four shapes a row and its outbox events can have together.
Untouched(t) == events[t] = {} /\ status[t] \in {"none", "pending", "confirmed", "failed"}
\* A trade under way, as the row and the outbox show it.
Executing(t) == events[t] = {"created"} /\ status[t] = "executing"
\* A trade refused or failed, as the row and the outbox show it.
Failed(t) ==
    events[t] = {"created", "failed"} /\ status[t] = "failed"
\* A completed trade, as the row and the outbox show it.
Completed(t) ==
    events[t] = {"created", "completed"} /\ status[t] = "completed" /\ t \in onChain

\* What each point of executeTrade knows of its trade.
RequestInv(t) ==
    /\ pc[t] \in {"start", "validated"} =>
          events[t] = {} /\ status[t] = "none"
    /\ pc[t] \in {"created", "rejected"} => Executing(t)
    /\ pc[t] = "executed" => Executing(t) /\ t \in onChain
    /\ pc[t] = "committed" => Completed(t)
    /\ pc[t] = "ok" => Untouched(t) \/ (Completed(t) /\ t \in counted)
    /\ pc[t] = "error" => Untouched(t) \/ Failed(t)
    /\ pc[t] \in {"aborted", "dead"} => Untouched(t) \/ Executing(t) \/ Failed(t) \/ Completed(t)
    /\ t \in counted => Completed(t)

\* The inductive invariant of executeTrade.
TradeInv == TradeTypeOK /\ \A t \in Trades : RequestInv(t)

\* It holds before the first request.
LEMMA TradeInitInv == TradeInit => TradeInv
BY ZenonT(30) DEF TradeInit, TradeInv, TradeTypeOK, RequestInv, Untouched, Executing, Failed, Completed,
   Statuses, Requests

\* Types.
LEMMA TypeNext == ASSUME TradeInv, [TradeNext]_tradeVars PROVE TradeTypeOK'
<1> USE DEF TradeInv, TradeTypeOK, Statuses, Requests, Goto
<1>1. ASSUME NEW t \in Trades, Validate(t) \/ Refuse(t) \/ ExecuteFails(t) \/ TransactionFails(t)
                               \/ RecordVelocityFails(t) \/ Crash(t)
      PROVE  TradeTypeOK'
  BY <1>1 DEF Validate, Refuse, ExecuteFails, TransactionFails, RecordVelocityFails, Crash
<1>2. ASSUME NEW t \in Trades, Create(t) PROVE TradeTypeOK'
  BY <1>2 DEF Create
<1>3. ASSUME NEW t \in Trades, Execute(t) \/ RecordVelocity(t) PROVE TradeTypeOK'
  BY <1>3 DEF Execute, RecordVelocity
<1>4. ASSUME NEW t \in Trades, CommitCompleted(t) PROVE TradeTypeOK'
  BY <1>4 DEF CommitCompleted, SaveTrade
<1>5. ASSUME NEW t \in Trades, CommitFailed(t) PROVE TradeTypeOK'
  BY <1>5 DEF CommitFailed, SaveTrade
<1>6. ASSUME NEW t \in Trades, SoftDelete(t) \/ PendingResolves(t) PROVE TradeTypeOK'
  BY <1>6, Zenon DEF SoftDelete, PendingResolves, SaveTrade
<1>7. ASSUME NEW c \in Restores, NEW t \in Trades, RestoreCheck(c, t) PROVE TradeTypeOK'
  BY <1>7 DEF RestoreCheck
<1>8. ASSUME NEW c \in Restores, Restore(c) \/ RestoreFails(c) PROVE TradeTypeOK'
  BY <1>8, Zenon DEF Restore, RestoreFails
<1>9. CASE UNCHANGED tradeVars
  BY <1>9, ZenonT(30) DEF tradeVars
<1> QED
  BY <1>1, <1>2, <1>3, <1>4, <1>5, <1>6, <1>7, <1>8, <1>9, ZenonT(30) DEF TradeNext, RequestStep

\* Nothing a request does reaches the row, the events or the flags of another.
Kept(u) ==
    /\ status'[u] = status[u] /\ events'[u] = events[u] /\ pc'[u] = pc[u]
    /\ (u \in onChain' <=> u \in onChain) /\ (u \in counted' <=> u \in counted)

\* A trade whose row, events and label are kept keeps its invariant.
LEMMA KeptInv == ASSUME NEW u \in Trades, RequestInv(u), Kept(u) PROVE RequestInv(u)'
BY DEF RequestInv, Kept, Untouched, Executing, Failed, Completed

\* A step of a request keeps its own invariant.
LEMMA StepInv ==
    ASSUME TradeInv, NEW t \in Trades, RequestStep(t) \/ Crash(t) \/ PendingResolves(t)
    PROVE  RequestInv(t)' /\ \A u \in Trades \ {t} : Kept(u)
<1>0. TradeTypeOK /\ RequestInv(t)
  BY ZenonT(30) DEF TradeInv
<1> USE <1>0 DEF TradeTypeOK, Goto
<1>1. \A u \in Trades \ {t} : Kept(u)
  BY DEF Kept, RequestStep, Validate, Refuse, Create, Execute, ExecuteFails, CommitCompleted,
     CommitFailed, SaveTrade, TransactionFails, RecordVelocity, RecordVelocityFails, Crash,
     PendingResolves
<1> SUFFICES RequestInv(t)'
  BY <1>1, ZenonT(30)
<1> USE DEF RequestInv, Untouched, Executing, Failed, Completed
<1>2. CASE Validate(t) \/ Refuse(t)
  BY <1>2, ZenonT(30) DEF Validate, Refuse
<1>3. CASE Create(t)
  BY <1>3, ZenonT(30) DEF Create
<1>4. CASE Execute(t) \/ ExecuteFails(t)
  BY <1>4 DEF Execute, ExecuteFails
<1>5. CASE CommitCompleted(t)
  BY <1>5, ZenonT(30) DEF CommitCompleted, SaveTrade
<1>6. CASE CommitFailed(t)
  BY <1>6, ZenonT(30) DEF CommitFailed, SaveTrade
<1>7. CASE TransactionFails(t) \/ Crash(t)
  BY <1>7, ZenonT(30) DEF TransactionFails, Crash
<1>8. CASE RecordVelocity(t) \/ RecordVelocityFails(t)
  BY <1>8, ZenonT(30) DEF RecordVelocity, RecordVelocityFails
<1>9. CASE PendingResolves(t)
  BY <1>9 DEF PendingResolves, SaveTrade, Requests
<1> QED
  BY <1>2, <1>3, <1>4, <1>5, <1>6, <1>7, <1>8, <1>9, Zenon DEF RequestStep

\* Every step keeps it for every trade.
LEMMA RequestNext ==
    ASSUME TradeInv, [TradeNext]_tradeVars
    PROVE  \A u \in Trades : RequestInv(u)'
<1>1. ASSUME NEW t \in Trades, RequestStep(t) \/ Crash(t) \/ PendingResolves(t)
      PROVE  \A u \in Trades : RequestInv(u)'
  BY <1>1, StepInv, KeptInv DEF TradeInv
<1>2. ASSUME UNCHANGED <<status, events, onChain, counted, pc>>
      PROVE  \A u \in Trades : RequestInv(u)'
  BY <1>2, KeptInv DEF TradeInv, Kept
<1>3. ASSUME NEW t \in Trades, SoftDelete(t) PROVE UNCHANGED <<status, events, onChain, counted, pc>>
  BY <1>3 DEF SoftDelete
<1>4. ASSUME NEW c \in Restores, Restore(c) \/ RestoreFails(c) \/ \E t \in Trades : RestoreCheck(c, t)
      PROVE  UNCHANGED <<status, events, onChain, counted, pc>>
  BY <1>4 DEF Restore, RestoreFails, RestoreCheck
<1>5. CASE UNCHANGED tradeVars
  BY <1>2, <1>5 DEF tradeVars
<1> QED
  BY <1>1, <1>2, <1>3, <1>4, <1>5 DEF TradeNext

\* Every step of executeTrade keeps it.
LEMMA TradeStep == ASSUME TradeInv, [TradeNext]_tradeVars PROVE TradeInv'
BY TypeNext, RequestNext DEF TradeInv

\* The inductive invariant of executeTrade.
THEOREM TradeInvariance == TradeSpec => []TradeInv
<1>1. TradeInv /\ [TradeNext]_tradeVars => TradeInv'
  BY TradeStep
<1> QED
  BY <1>1, TradeInitInv, PTL DEF TradeSpec

\* TradeTypeOK.
THEOREM TypeCorrect == TradeSpec => []TradeTypeOK
<1>1. TradeInv => TradeTypeOK
  BY DEF TradeInv
<1> QED
  BY <1>1, TradeInvariance, PTL

\* EventsMatchRow: row and outbox agree through crashes, rollbacks, soft
\* deletes and restores, for any number of concurrent requests.
THEOREM EventsMatch == TradeSpec => []EventsMatchRow
<1>1. TradeInv => EventsMatchRow
  <2> SUFFICES ASSUME TradeInv, NEW t \in Trades, "created" \in events[t]
               PROVE  /\ "completed" \in events[t] <=> status[t] = "completed"
                      /\ "failed" \in events[t] <=> status[t] = "failed"
                      /\ status[t] = "completed" => t \in onChain
    BY DEF EventsMatchRow
  <2>1. Executing(t) \/ Failed(t) \/ Completed(t)
    BY DEF TradeInv, TradeTypeOK, Requests, RequestInv, Untouched
  <2> QED
    BY <2>1 DEF Executing, Failed, Completed
<1> QED
  BY <1>1, TradeInvariance, PTL

\* AnswerIsKept: what a successful answer promises holds for good.
THEOREM AnswersKept == TradeSpec => []AnswerIsKept
<1>1. TradeInv => AnswerIsKept
  BY DEF TradeInv, TradeTypeOK, RequestInv, Untouched, Completed, AnswerIsKept
<1> QED
  BY <1>1, TradeInvariance, PTL

-----------------------------------------------------------------------------
(* TradeEvents: the requests and the relay together *)

\* A row exists only for an event its trade has recorded, and the relay handles
\* and emits only rows that exist.
RowsInv ==
    /\ rowStatus \in [Rows -> Outbox!Statuses]
    /\ emits \in [Rows -> Nat]
    /\ batch \in [Relays -> SUBSET Rows]
    /\ \A x \in Rows : rowStatus[x] = "absent" =>
          emits[x] = 0 /\ \A r \in Relays : x \notin batch[r]
    /\ \A t \in Trades, e \in EventNames : rowStatus[RowOf[t][e]] # "absent" => e \in events[t]

\* No row exists in the beginning.
LEMMA RowsInit == Init => RowsInv
BY RowOfAssumption DEF Init, Outbox!Init, RowsInv, Outbox!Statuses

\* Publishing, retrying, taking over and crashing make no row and forget none.
LEMMA RelayRows ==
    ASSUME RowsInv, RelayOnly PROVE RowsInv'
<1> USE RowOfAssumption DEF RowsInv, Outbox!Statuses, Outbox!rowVars, Outbox!NextRow, Outbox!EndRun,
        Outbox!IsCurrent
<1>0. events' = events
  BY ZenonT(30) DEF RelayOnly, tradeVars
<1>1. ASSUME NEW x \in Rows, Outbox!BecomesDue(x) \/ Outbox!BecomesStale(x) PROVE RowsInv'
  BY <1>0, <1>1, ZenonT(30) DEF Outbox!BecomesDue, Outbox!BecomesStale
<1>2. ASSUME NEW r \in Relays, Outbox!ClaimBatch(r) PROVE RowsInv'
  BY <1>0, <1>2 DEF Outbox!ClaimBatch, Outbox!Claimable
<1>3. ASSUME NEW r \in Relays, NEW x \in Rows, Outbox!Emit(r, x) PROVE RowsInv'
  BY <1>0, <1>3 DEF Outbox!Emit
<1>4. ASSUME NEW r \in Relays, NEW x \in Rows, Outbox!EmitFails(r, x) \/ Outbox!MarkFails(r, x)
      PROVE  RowsInv'
  BY <1>0, <1>4 DEF Outbox!EmitFails, Outbox!MarkFails
<1>5. ASSUME NEW r \in Relays, NEW x \in Rows, Outbox!MarkPublished(r, x) PROVE RowsInv'
  BY <1>0, <1>5 DEF Outbox!MarkPublished
<1>6. ASSUME NEW r \in Relays, NEW x \in Rows, Outbox!RecordFailure(r, x) PROVE RowsInv'
  BY <1>0, <1>6, ZenonT(30) DEF Outbox!RecordFailure
<1>7. ASSUME NEW r \in Relays, NEW x \in Rows, Outbox!RecordFailureFails(r, x) PROVE RowsInv'
  BY <1>0, <1>7, ZenonT(30) DEF Outbox!RecordFailureFails
<1>8. ASSUME NEW r \in Relays, Outbox!Crash(r) PROVE RowsInv'
  BY <1>0, <1>8 DEF Outbox!Crash
<1> QED
  BY <1>1, <1>2, <1>3, <1>4, <1>5, <1>6, <1>7, <1>8, Zenon DEF RelayOnly, Outbox!RelayStep

\* Every step keeps RowsInv.
LEMMA RowsNext ==
    ASSUME TradeInv, RowsInv, [Next]_vars PROVE RowsInv'
<1>1. ASSUME NEW t \in Trades, NEW e \in EventNames, CommitWithEvent(t, e) PROVE RowsInv'
  <2>1. events \in [Trades -> SUBSET EventNames]
    BY DEF TradeInv, TradeTypeOK, EventNames
  <2>2. events' = [events EXCEPT ![t] = @ \cup {e}] /\ Outbox!Record(RowOf[t][e])
    BY <1>1 DEF CommitWithEvent
  <2> QED
    BY <2>1, <2>2, RowOfAssumption DEF RowsInv, Outbox!Record, Outbox!Statuses
<1>2. CASE TradeOnly
  BY <1>2 DEF TradeOnly, relayVars, RowsInv
<1>3. CASE RelayOnly
  BY <1>3, RelayRows, ZenonT(30)
<1>4. CASE UNCHANGED vars
  BY <1>4 DEF vars, relayVars, tradeVars, RowsInv
<1> QED
  BY <1>1, <1>2, <1>3, <1>4 DEF Next

\* A step of the system is a step of the trades or leaves them alone.
LEMMA TradePart == [Next]_vars => [TradeNext]_tradeVars
BY ZenonT(30) DEF Next, vars, CommitWithEvent, TradeOnly, RelayOnly

\* A step of the system is a step of the relay or leaves its rows alone.
LEMMA RelayPart == [Next]_vars => [Outbox!Next]_(Outbox!outboxVars)
<1>1. ASSUME NEW t \in Trades, NEW e \in EventNames, CommitWithEvent(t, e) PROVE Outbox!Next
  BY <1>1, RowOfAssumption, Zenon DEF CommitWithEvent, Outbox!Next
<1>2. TradeOnly \/ UNCHANGED vars => UNCHANGED Outbox!outboxVars
  BY Zenon DEF TradeOnly, vars, relayVars, Outbox!outboxVars
<1>3. RelayOnly => Outbox!Next
  BY Zenon DEF RelayOnly, Outbox!Next
<1> QED
  BY <1>1, <1>2, <1>3, Zenon DEF Next

\* Together with the relay, requests behave as TradeExecution says: nothing the relay
\* does reaches a trade, so what is proved of every behaviour of TradeSpec holds here.
THEOREM TradesImplementExecution == Spec => TradeSpec
<1>1. Init => TradeInit
  BY DEF Init
<1> QED
  BY <1>1, TradePart, PTL DEF Spec, TradeSpec

\* Together with the requests, the relay behaves as OutboxRelay says, with the rows
\* that transactions record: what is proved of every behaviour of the relay's Spec
\* holds of the rows of any set of trades.
THEOREM EventsImplementRelay == Spec => Outbox!Spec
<1>1. Init => Outbox!Init
  BY DEF Init
<1> QED
  BY <1>1, RelayPart, PTL DEF Spec, Outbox!Spec

\* HeardIsTrue, for any number of trades and relays: what a listener is told of a
\* trade is committed and stays so.
THEOREM ListenersHearTheTruth == Spec => []HeardIsTrue
<1>1. Init => TradeInv /\ RowsInv
  BY TradeInitInv, RowsInit DEF Init
<1>2. TradeInv /\ RowsInv /\ [Next]_vars => (TradeInv /\ RowsInv)'
  <2> SUFFICES ASSUME TradeInv, RowsInv, [Next]_vars PROVE TradeInv' /\ RowsInv'
    OBVIOUS
  <2>1. [TradeNext]_tradeVars
    BY TradePart
  <2> QED
    BY <2>1, TradeStep, RowsNext
<1>3. TradeInv /\ RowsInv => HeardIsTrue
  <2> SUFFICES ASSUME TradeInv, RowsInv, NEW t \in Trades
               PROVE  /\ emits[RowOf[t]["completed"]] > 0 => status[t] = "completed" /\ t \in onChain
                      /\ emits[RowOf[t]["failed"]] > 0 => status[t] = "failed"
    BY Zenon DEF HeardIsTrue
  <2>1. ASSUME NEW e \in EventNames, emits[RowOf[t][e]] > 0 PROVE e \in events[t]
    BY <2>1, RowOfAssumption DEF RowsInv
  <2>2. Untouched(t) \/ Executing(t) \/ Failed(t) \/ Completed(t)
    BY DEF TradeInv, TradeTypeOK, RequestInv, Untouched, Requests
  <2> QED
    BY <2>1, <2>2 DEF EventNames, Untouched, Executing, Failed, Completed
<1> QED
  BY <1>1, <1>2, <1>3, PTL DEF Spec

-----------------------------------------------------------------------------
(* The saga *)

\* The log of a saga whose first n steps are performed.
CompletedUpTo(n) == {[step |-> s, status |-> "COMPLETED"] : s \in 1..n}

\* What the first n steps have done.
EffectsOf(n) ==
    /\ tradeStatus = IF n = finalize_trade THEN "COMPLETED"
                     ELSE IF n >= persist_trade THEN "EXECUTING" ELSE "none"
    /\ n >= soroban_execution => onLedger
    /\ n >= update_portfolio => tallied

\* On the way forward the row knows of every step performed before the current one.
ForwardInv ==
    /\ where \in {"execute", "record", "complete"} =>
          stored = mem /\ mem.status = "RUNNING" /\ ~failures /\ EffectsOf(todo)
    /\ where = "execute" => current = todo + 1 /\ mem.steps = CompletedUpTo(todo)
    /\ where = "record" => current = todo /\ mem.steps = CompletedUpTo(todo - 1)
    /\ where = "complete" => todo = StepCount /\ mem.steps = CompletedUpTo(StepCount)

\* On the way back what is left to undo is among the first todo steps, as long as no
\* compensation failed.
BackwardInv ==
    where \in {"fail", "compensate", "undo", "recordUndo"} =>
        /\ mem.status \in {"RUNNING", "COMPENSATING"}
        /\ ~failures =>
              /\ \A r \in mem.steps : r.status = "COMPLETED" => r.step <= todo
              /\ todo < persist_trade \/ (where = "recordUndo" /\ todo = persist_trade) =>
                    tradeStatus \in {"none", "FAILED"}
        /\ where = "recordUndo" => todo > 0

\* Only the last save gives the row an outcome, and only then run answers it.
OutcomeInv ==
    /\ where # "end" => stored.status \in {"RUNNING", "COMPENSATING"}
    /\ where \notin {"end", "aborted"} => answer = "none"
    /\ where = "aborted" => answer = "error"

\* The inductive invariant of a run of the saga.
SagaInv ==
    SagaTypeOK /\ ForwardInv /\ BackwardInv /\ OutcomeInv /\ CompensatedIsUndone /\ CompletedIsWhole

\* SagaInv holds when run starts.
LEMMA SagaInitially == SagaInit => SagaInv
<1> SUFFICES ASSUME SagaInit PROVE SagaInv
  BY ZenonT(30)
<1> USE DEF reserve_funds, persist_trade, soroban_execution, update_portfolio, finalize_trade,
        StepCount, StepIds
<1>1. mem \in Sagas
  BY DEF SagaInit, Sagas, SagaStatuses
<1>2. failures \in BOOLEAN /\ onLedger \in BOOLEAN /\ tallied \in BOOLEAN
  BY Zenon DEF SagaInit
<1>3. SagaTypeOK
  BY <1>1, <1>2 DEF SagaInit, SagaTypeOK
<1>4. mem.status = "RUNNING" /\ stored = mem /\ mem.steps = {} /\ CompletedUpTo(0) = {}
  BY DEF SagaInit, CompletedUpTo
<1>5. ForwardInv /\ BackwardInv /\ OutcomeInv
  BY <1>4 DEF SagaInit, ForwardInv, BackwardInv, OutcomeInv, EffectsOf
<1>6. CompensatedIsUndone /\ CompletedIsWhole
  BY <1>4 DEF SagaInit, CompensatedIsUndone, CompletedIsWhole
<1> QED
  BY <1>3, <1>5, <1>6 DEF SagaInv

\* Undone keeps the rows rows.
LEMMA UndoneType == ASSUME mem \in Sagas, NEW n PROVE Undone(n) \in Sagas
<1>1. \A r \in mem.steps : r \in StepRecords /\ [r EXCEPT !.status = "COMPENSATED"] \in StepRecords
  BY DEF Sagas, StepRecords
<1>2. {IF r.step = n /\ r.status = "COMPLETED" THEN [r EXCEPT !.status = "COMPENSATED"] ELSE r :
         r \in mem.steps} \subseteq StepRecords
  BY <1>1, Zenon
<1> QED
  BY <1>2 DEF Undone, Sagas

\* Types.
LEMMA SagaTypesKept ==
    ASSUME SagaInv, [SagaNext]_sagaVars PROVE SagaTypeOK'
<1> USE DEF SagaInv, SagaTypeOK, Sagas, SagaStatuses, StepRecords, sagaEffects,
            reserve_funds, persist_trade, soroban_execution, update_portfolio,
            finalize_trade, StepCount, StepIds
<1>1. CASE ExecuteStep
  <2>1. todo' \in 0..StepCount
    BY <1>1 DEF ExecuteStep, ForwardInv
  <2>2. onLedger' \in BOOLEAN /\ tallied' \in BOOLEAN
    BY <1>1 DEF ExecuteStep, Perform
  <2>3. tradeStatus' \in {"none", "EXECUTING", "COMPLETED", "FAILED"}
    BY <1>1 DEF ExecuteStep, Perform
  <2>4. UNCHANGED <<current, mem, stored, failures, answer>> /\ where' = "record"
    BY <1>1 DEF ExecuteStep
  <2> QED
    BY <2>1, <2>2, <2>3, <2>4
<1>2. CASE ExecuteStepFails
  <2>1. onLedger' \in BOOLEAN /\ tallied' \in BOOLEAN
    BY <1>2, Zenon DEF ExecuteStepFails, Perform
  <2>2. tradeStatus' \in {"none", "EXECUTING", "COMPLETED", "FAILED"}
    BY <1>2 DEF ExecuteStepFails, Perform
  <2>3. UNCHANGED <<current, todo, mem, stored, failures, answer>> /\ where' = "fail"
    BY <1>2 DEF ExecuteStepFails
  <2> QED
    BY <2>1, <2>2, <2>3
<1>3. CASE RecordStepCompleted
  BY <1>3 DEF RecordStepCompleted, Save, Recorded
<1>4. CASE RecordStepCompletedFails
  BY <1>4 DEF RecordStepCompletedFails, Recorded
<1>5. CASE RecordStepFailed
  BY <1>5 DEF RecordStepFailed, Save, Recorded
<1>6. CASE MarkCompensating
  BY <1>6 DEF MarkCompensating, Save
<1>7. CASE RecordFailureFails
  BY <1>7 DEF RecordFailureFails, Abort, Recorded
<1>8. CASE CompensateStep
  BY <1>8 DEF CompensateStep, Compensate
<1>9. CASE CompensateStepFails
  BY <1>9 DEF CompensateStepFails
<1>10. CASE RecordStepCompensated
  <2>1. mem' \in Sagas
    BY <1>10, UndoneType DEF RecordStepCompensated, Save
  <2>2. stored' = mem' /\ failures' = failures
    BY <1>10 DEF RecordStepCompensated, Save
  <2>3. todo' \in 0..StepCount
    BY <1>10 DEF RecordStepCompensated, BackwardInv
  <2>4. UNCHANGED <<current, sagaEffects, answer>> /\ where' = "undo"
    BY <1>10 DEF RecordStepCompensated
  <2> QED
    BY <2>1, <2>2, <2>3, <2>4
<1>11. CASE RecordStepCompensatedFails
  <2>1. mem' \in Sagas
    BY <1>11, UndoneType DEF RecordStepCompensatedFails, Save
  <2>2. stored' = stored /\ failures' = TRUE
    BY <1>11 DEF RecordStepCompensatedFails
  <2>3. todo' \in 0..StepCount
    BY <1>11 DEF RecordStepCompensatedFails, BackwardInv
  <2>4. UNCHANGED <<current, sagaEffects, answer>> /\ where' = "undo"
    BY <1>11 DEF RecordStepCompensatedFails
  <2> QED
    BY <2>1, <2>2, <2>3, <2>4
<1>12. CASE MarkOutcome
  BY <1>12 DEF MarkOutcome, Save, Return
<1>13. CASE MarkCompleted
  BY <1>13 DEF MarkCompleted, Save, Return
<1>14. CASE MarkFails
  BY <1>14 DEF MarkFails, Abort
<1>15. CASE SagaCrash
  BY <1>15 DEF SagaCrash
<1>16. CASE UNCHANGED sagaVars
  BY <1>16 DEF sagaVars
<1> QED
  BY <1>1, <1>2, <1>3, <1>4, <1>5, <1>6, <1>7, <1>8, <1>9, <1>10, <1>11, <1>12, <1>13,
     <1>14, <1>15, <1>16, ZenonT(30)
     DEF SagaNext, SagaStep

\* The way forward.
LEMMA ForwardKept ==
    ASSUME SagaInv, [SagaNext]_sagaVars PROVE ForwardInv'
<1> USE DEF SagaInv, SagaTypeOK, Sagas, ForwardInv, CompletedUpTo, EffectsOf,
            sagaEffects, reserve_funds, persist_trade, soroban_execution,
            update_portfolio, finalize_trade, StepCount, StepIds
<1>1. CASE ExecuteStep
  <2>1. /\ todo' = current /\ current' = current /\ where' = "record" /\ stored' = mem' /\ mem' = mem
        /\ mem.status = "RUNNING" /\ mem.steps = CompletedUpTo(todo' - 1) /\ ~failures'
    BY <1>1 DEF ExecuteStep
  <2>2. EffectsOf(todo)'
    <3>1. current = todo + 1 /\ todo' = todo + 1 /\ todo \in 0..4 /\ Perform(current) /\ EffectsOf(todo)
      BY <1>1 DEF ExecuteStep
    <3> HIDE DEF SagaInv
    <3>2. tradeStatus' = IF todo' = finalize_trade THEN "COMPLETED"
                         ELSE IF todo' >= persist_trade THEN "EXECUTING" ELSE "none"
      BY <3>1 DEF Perform
    <3>3. todo' >= soroban_execution => onLedger'
      <4>1. todo' >= soroban_execution => current = soroban_execution \/ onLedger
        BY <3>1
      <4>2. current = soroban_execution \/ onLedger => onLedger'
        BY <3>1, Zenon DEF Perform
      <4> QED
        BY <4>1, <4>2
    <3>4. todo' >= update_portfolio => tallied'
      <4>1. todo' >= update_portfolio => current = update_portfolio \/ tallied
        BY <3>1
      <4>2. current = update_portfolio \/ tallied => tallied'
        BY <3>1, Zenon DEF Perform
      <4> QED
        BY <4>1, <4>2
    <3> QED
      BY <3>2, <3>3, <3>4, ZenonT(30)
  <2> HIDE DEF CompletedUpTo, EffectsOf
  <2> QED
    BY <2>1, <2>2, ZenonT(30)
<1>2. CASE ExecuteStepFails
  BY <1>2 DEF ExecuteStepFails, Perform
<1>3. CASE RecordStepCompleted
  BY <1>3 DEF RecordStepCompleted, Save, Recorded
<1>4. CASE RecordStepCompletedFails
  BY <1>4 DEF RecordStepCompletedFails, Recorded
<1>5. CASE RecordStepFailed
  BY <1>5 DEF RecordStepFailed, Save, Recorded
<1>6. CASE MarkCompensating
  BY <1>6 DEF MarkCompensating, Save
<1>7. CASE RecordFailureFails
  BY <1>7, ZenonT(30) DEF RecordFailureFails, Abort, Recorded
<1>8. CASE CompensateStep
  BY <1>8, ZenonT(30) DEF CompensateStep, Compensate
<1>9. CASE CompensateStepFails
  BY <1>9 DEF CompensateStepFails
<1>10. CASE RecordStepCompensated
  BY <1>10 DEF RecordStepCompensated, Save, Undone
<1>11. CASE RecordStepCompensatedFails
  BY <1>11 DEF RecordStepCompensatedFails, Undone
<1>12. CASE MarkOutcome
  BY <1>12 DEF MarkOutcome, Save, Return
<1>13. CASE MarkCompleted
  BY <1>13, ZenonT(30) DEF MarkCompleted, Save, Return
<1>14. CASE MarkFails
  BY <1>14, ZenonT(30) DEF MarkFails, Abort
<1>15. CASE SagaCrash
  BY <1>15, ZenonT(30) DEF SagaCrash
<1>16. CASE UNCHANGED sagaVars
  BY <1>16 DEF sagaVars
<1> QED
  BY <1>1, <1>2, <1>3, <1>4, <1>5, <1>6, <1>7, <1>8, <1>9, <1>10, <1>11, <1>12, <1>13,
     <1>14, <1>15, <1>16, ZenonT(30)
     DEF SagaNext, SagaStep

\* The way back.
LEMMA BackwardKept ==
    ASSUME SagaInv, [SagaNext]_sagaVars PROVE BackwardInv'
<1> USE DEF SagaInv, SagaTypeOK, Sagas, StepRecords, ForwardInv, BackwardInv,
            CompletedUpTo, EffectsOf, sagaEffects, reserve_funds, persist_trade,
            soroban_execution, update_portfolio, finalize_trade, StepCount, StepIds
<1>1. CASE ExecuteStep
  BY <1>1 DEF ExecuteStep, Perform
<1>2. CASE ExecuteStepFails
  BY <1>2 DEF ExecuteStepFails, Perform
<1>3. CASE RecordStepCompleted
  BY <1>3 DEF RecordStepCompleted, Save, Recorded
<1>4. CASE RecordStepCompletedFails
  BY <1>4 DEF RecordStepCompletedFails, Recorded
<1>5. CASE RecordStepFailed
  BY <1>5 DEF RecordStepFailed, Save, Recorded
<1>6. CASE MarkCompensating
  BY <1>6 DEF MarkCompensating, Save
<1>7. CASE RecordFailureFails
  BY <1>7, ZenonT(30) DEF RecordFailureFails, Abort, Recorded
<1>8. CASE CompensateStep
  BY <1>8, ZenonT(30) DEF CompensateStep, Compensate
<1>9. CASE CompensateStepFails
  BY <1>9 DEF CompensateStepFails
<1>10. CASE RecordStepCompensated
  BY <1>10 DEF RecordStepCompensated, Save, Undone
<1>11. CASE RecordStepCompensatedFails
  BY <1>11 DEF RecordStepCompensatedFails, Undone
<1>12. CASE MarkOutcome
  BY <1>12 DEF MarkOutcome, Save, Return
<1>13. CASE MarkCompleted
  BY <1>13, ZenonT(30) DEF MarkCompleted, Save, Return
<1>14. CASE MarkFails
  BY <1>14, ZenonT(30) DEF MarkFails, Abort
<1>15. CASE SagaCrash
  BY <1>15, ZenonT(30) DEF SagaCrash
<1>16. CASE UNCHANGED sagaVars
  BY <1>16 DEF sagaVars
<1> QED
  BY <1>1, <1>2, <1>3, <1>4, <1>5, <1>6, <1>7, <1>8, <1>9, <1>10, <1>11, <1>12, <1>13,
     <1>14, <1>15, <1>16, Zenon
     DEF SagaNext, SagaStep

\* The outcome is written last.
LEMMA OutcomeKept ==
    ASSUME SagaInv, [SagaNext]_sagaVars PROVE (OutcomeInv /\ CompensatedIsUndone /\ CompletedIsWhole)'
<1> USE DEF SagaInv, SagaTypeOK, Sagas, StepRecords, ForwardInv, BackwardInv,
            OutcomeInv, CompensatedIsUndone, CompletedIsWhole, Records, CompletedUpTo,
            EffectsOf, sagaEffects, reserve_funds, persist_trade, soroban_execution,
            update_portfolio, finalize_trade, StepCount, StepIds
<1>1. CASE ExecuteStep
  BY <1>1 DEF ExecuteStep, Perform
<1>2. CASE ExecuteStepFails
  BY <1>2 DEF ExecuteStepFails, Perform
<1>3. CASE RecordStepCompleted
  BY <1>3 DEF RecordStepCompleted, Save, Recorded
<1>4. CASE RecordStepCompletedFails
  BY <1>4 DEF RecordStepCompletedFails, Recorded
<1>5. CASE RecordStepFailed
  BY <1>5 DEF RecordStepFailed, Save, Recorded
<1>6. CASE MarkCompensating
  BY <1>6 DEF MarkCompensating, Save
<1>7. CASE RecordFailureFails
  BY <1>7, ZenonT(30) DEF RecordFailureFails, Abort, Recorded
<1>8. CASE CompensateStep
  BY <1>8, ZenonT(30) DEF CompensateStep, Compensate
<1>9. CASE CompensateStepFails
  BY <1>9 DEF CompensateStepFails
<1>10. CASE RecordStepCompensated
  BY <1>10 DEF RecordStepCompensated, Save, Undone
<1>11. CASE RecordStepCompensatedFails
  BY <1>11 DEF RecordStepCompensatedFails, Undone
<1>12. CASE MarkOutcome
  BY <1>12 DEF MarkOutcome, Save, Return
<1>13. CASE MarkCompleted
  <2>1. /\ stored' = [mem EXCEPT !.status = "COMPLETED"] /\ answer' = "success" /\ where' = "end"
        /\ UNCHANGED <<tradeStatus, onLedger, tallied>>
        /\ mem.steps = CompletedUpTo(StepCount) /\ EffectsOf(StepCount)
    BY <1>13 DEF MarkCompleted, Save, Return
  <2>2. stored'.status = "COMPLETED" /\ stored'.steps = CompletedUpTo(StepCount)
    BY <2>1, ZenonT(30)
  <2>3. Records("COMPLETED")' = StepIds
    <3>1. {q \in stored'.steps : q.status = "COMPLETED"} = CompletedUpTo(StepCount)
      BY <2>2
    <3>2. {r.step : r \in CompletedUpTo(StepCount)} = StepIds
      <4>1. \A r \in CompletedUpTo(StepCount) : r.step \in StepIds
        OBVIOUS
      <4>2. \A n \in StepIds : \E r \in CompletedUpTo(StepCount) : r.step = n
        <5> TAKE n \in StepIds
        <5> WITNESS [step |-> n, status |-> "COMPLETED"] \in CompletedUpTo(StepCount)
        <5> QED
          OBVIOUS
      <4> HIDE DEF CompletedUpTo, SagaInv
      <4> QED
        BY <4>1, <4>2, ZenonT(30)
    <3> QED
      BY <3>1, <3>2, ZenonT(30)
  <2> HIDE DEF Records
  <2> QED
    BY <2>1, <2>2, <2>3
<1>14. CASE MarkFails
  BY <1>14, ZenonT(30) DEF MarkFails, Abort
<1>15. CASE SagaCrash
  BY <1>15, ZenonT(30) DEF SagaCrash
<1>16. CASE UNCHANGED sagaVars
  BY <1>16 DEF sagaVars
<1> QED
  BY <1>1, <1>2, <1>3, <1>4, <1>5, <1>6, <1>7, <1>8, <1>9, <1>10, <1>11, <1>12, <1>13,
     <1>14, <1>15, <1>16, Zenon
     DEF SagaNext, SagaStep

\* SagaInv holds throughout.
LEMMA SagaInvariance == SagaSpec => []SagaInv
<1>1. SagaInv /\ [SagaNext]_sagaVars => SagaInv'
  BY SagaTypesKept, ForwardKept, BackwardKept, OutcomeKept DEF SagaInv
<1> QED
  BY <1>1, SagaInitially, PTL DEF SagaSpec

\* A saga stored as COMPENSATED left no live trade and no completed step, whichever
\* steps, saves and compensations fail and wherever the process stops.
THEOREM SagasAreUndone == SagaSpec => []CompensatedIsUndone
BY SagaInvariance, PTL DEF SagaInv

\* A saga stored as COMPLETED is whole, and run says "success" exactly of those.
THEOREM SagasAreWhole == SagaSpec => []CompletedIsWhole
BY SagaInvariance, PTL DEF SagaInv
=============================================================================
