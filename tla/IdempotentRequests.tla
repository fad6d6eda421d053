-------------------------- MODULE IdempotentRequests --------------------------
(***************************************************************************)
(* Requests that carry ONE Idempotency-Key on one route: the guard that    *)
(* some routes have (RequireIdempotencyKeyGuard), the interceptor that     *)
(* keeps responses in the shared cache (IdempotencyInterceptor), and the   *)
(* end of the response, which frees the guard.                             *)
(*                                                                         *)
(* A request is answered with the response of an execution, which is named *)
(* after the request that ran it; so is the cache's entry.  The cache is   *)
(* shared by the replicas, as the interceptor's comment has it.            *)
(***************************************************************************)
CONSTANTS KeyedRequests,   \* the requests, retries included
          KeyReplicas,
          Routings,        \* the ways a load balancer may spread them over the replicas
          BodyOf,          \* the body of each request
          NoRequest,
          KeyFaults        \* subset of {"cache", "crash", "disconnect"}

ASSUME RoutingsAssumption == Routings \subseteq [KeyedRequests -> KeyReplicas]
ASSUME NoRequestAssumption == NoRequest \notin KeyedRequests

VARIABLES guarded,   \* whether the route has the guard
          servedBy,  \* the replica that gets each request
          entry,     \* the execution whose response the cache holds
          expired,   \* executions whose entry has passed its expiresAt
          busy,      \* replicas whose guard has the key in inFlight
          inFlight,  \* the execution in each replica's interceptor
          leg,       \* where each request is
          cached,    \* what its look-up returned, until the request acts on it
          reply,     \* the execution it is about to be answered from
          executed,  \* requests whose handler returned
          hitch      \* history: what happened that ends the guarantee

routeVars == <<guarded, servedBy>>
keyVars == <<routeVars, entry, expired, busy, inFlight, leg, cached, reply, executed, hitch>>

Executions == KeyedRequests \cup {NoRequest}
Hitches == {"replicas", "late", "cache", "crash", "disconnect"}

KeyTypeOK ==
    /\ guarded \in {"yes", "no"} /\ servedBy \in Routings
    /\ entry \in Executions /\ expired \subseteq executed
    /\ busy \subseteq KeyReplicas
    /\ inFlight \in [KeyReplicas -> Executions]
    /\ leg \in [KeyedRequests -> {"new", "lookup", "seen", "evicted", "wait", "handler",
                                  "store", "settle", "respond", "done"}]
    /\ cached \in [KeyedRequests -> Executions] /\ reply \in [KeyedRequests -> Executions]
    /\ executed \subseteq KeyedRequests /\ hitch \subseteq Hitches

KeyInit ==
    /\ guarded \in {"yes", "no"} /\ servedBy \in Routings
    /\ entry = NoRequest /\ expired = {} /\ busy = {}
    /\ inFlight = [p \in KeyReplicas |-> NoRequest]
    /\ leg = [r \in KeyedRequests |-> "new"]
    /\ cached = [r \in KeyedRequests |-> NoRequest] /\ reply = [r \in KeyedRequests |-> NoRequest]
    /\ executed = {} /\ hitch = {}

InProgress(r) == leg[r] \notin {"new", "done"}
Together(r) == {q \in KeyedRequests : servedBy[q] = servedBy[r]}
Go(r, l) == leg' = [leg EXCEPT ![r] = l]
Act(r, l) == Go(r, l) /\ cached' = [cached EXCEPT ![r] = NoRequest]
Hitch(S) == hitch' = hitch \cup S

\* An answer without a response: an error, or 409.
Refused(r) ==
    /\ Act(r, "respond")
    /\ UNCHANGED <<routeVars, entry, expired, busy, inFlight, reply, executed, hitch>>

-----------------------------------------------------------------------------
(* canActivate *)

\* The key is in flight: 409, Retry-After.
GuardRefuses(r) ==
    /\ leg[r] = "new" /\ guarded = "yes" /\ servedBy[r] \in busy
    /\ Go(r, "done")
    /\ UNCHANGED <<routeVars, entry, expired, busy, inFlight, cached, reply, executed, hitch>>

Admit(r) ==
    /\ leg[r] = "new"
    /\ guarded = "yes" => servedBy[r] \notin busy
    /\ busy' = IF guarded = "yes" THEN busy \cup {servedBy[r]} ELSE busy
    /\ Hitch(IF \E q \in KeyedRequests \ Together(r) : InProgress(q) THEN {"replicas"} ELSE {})
    /\ Go(r, "lookup")
    /\ UNCHANGED <<routeVars, entry, expired, inFlight, cached, reply, executed>>

-----------------------------------------------------------------------------
(* resolve *)

\* cache.get.
ReadEntry(r) ==
    /\ leg[r] = "lookup"
    /\ cached' = [cached EXCEPT ![r] = entry]
    /\ Go(r, "seen")
    /\ UNCHANGED <<routeVars, entry, expired, busy, inFlight, reply, executed, hitch>>

ReadFails(r) ==
    /\ "cache" \in KeyFaults
    /\ leg[r] = "lookup"
    /\ Refused(r)

\* Mutant: the bodies are not compared.
ReplayUnchecked(r) ==
    /\ leg[r] = "seen" /\ cached[r] \notin expired \cup {NoRequest}
    /\ reply' = [reply EXCEPT ![r] = cached[r]]
    /\ Act(r, "respond")
    /\ UNCHANGED <<routeVars, entry, expired, busy, inFlight, executed, hitch>>

Replay(r) ==
    /\ leg[r] = "seen" /\ cached[r] \notin expired \cup {NoRequest}
    /\ BodyOf[cached[r]] = BodyOf[r]
    /\ reply' = [reply EXCEPT ![r] = cached[r]]
    /\ Act(r, "respond")
    /\ UNCHANGED <<routeVars, entry, expired, busy, inFlight, executed, hitch>>

\* "Idempotency-Key reused with a different request payload".
RejectReuse(r) ==
    /\ leg[r] = "seen" /\ cached[r] \notin expired \cup {NoRequest}
    /\ BodyOf[cached[r]] # BodyOf[r]
    /\ Refused(r)

\* cache.del: it removes whatever the cache holds by now.
EvictExpired(r) ==
    /\ leg[r] = "seen" /\ cached[r] \in expired
    /\ entry' = NoRequest
    /\ Act(r, "evicted")
    /\ UNCHANGED <<routeVars, expired, busy, inFlight, reply, executed, hitch>>

\* cache.del throws, with or without effect.
EvictFails(r) ==
    /\ "cache" \in KeyFaults
    /\ leg[r] = "seen" /\ cached[r] \in expired
    /\ entry' \in {entry, NoRequest}
    /\ Act(r, "respond")
    /\ UNCHANGED <<routeVars, expired, busy, inFlight, reply, executed, hitch>>

\* Nothing in the cache: on to inFlight.
Missed(r) == leg[r] = "evicted" \/ (leg[r] = "seen" /\ cached[r] = NoRequest)

\* The request shares the result of the execution, whatever its body.
JoinExecution(r) ==
    /\ Missed(r) /\ inFlight[servedBy[r]] # NoRequest
    /\ Go(r, "wait")
    /\ UNCHANGED <<routeVars, entry, expired, busy, inFlight, cached, reply, executed, hitch>>

\* Mutant: an execution in flight is not looked for.
StartHandlerAnyway(r) ==
    /\ Missed(r)
    /\ inFlight' = [inFlight EXCEPT ![servedBy[r]] = r]
    /\ Go(r, "handler")
    /\ UNCHANGED <<routeVars, entry, expired, busy, cached, reply, executed, hitch>>

StartHandler(r) ==
    /\ Missed(r) /\ inFlight[servedBy[r]] = NoRequest
    /\ inFlight' = [inFlight EXCEPT ![servedBy[r]] = r]
    /\ Go(r, "handler")
    /\ UNCHANGED <<routeVars, entry, expired, busy, cached, reply, executed, hitch>>

HandlerReturns(r) ==
    /\ leg[r] = "handler"
    /\ executed' = executed \cup {r}
    /\ Go(r, "store")
    /\ UNCHANGED <<routeVars, entry, expired, busy, inFlight, cached, reply, hitch>>

\* The execution settles: its request and those that share it answer alike, and
\* the finally block clears inFlight.
Settle(r, x) ==
    LET sharing == {q \in Together(r) : q = r \/ leg[q] = "wait"}
    IN  /\ leg' = [q \in KeyedRequests |-> IF q \in sharing THEN "respond" ELSE leg[q]]
        /\ reply' = [q \in KeyedRequests |-> IF q \in sharing THEN x ELSE reply[q]]
        /\ inFlight' = [inFlight EXCEPT ![servedBy[r]] = NoRequest]

HandlerThrows(r) ==
    /\ leg[r] = "handler"
    /\ Settle(r, NoRequest)
    /\ UNCHANGED <<routeVars, entry, expired, busy, cached, executed, hitch>>

\* cache.set.  An answer of the cache is late if it is older than this and still
\* makes its request delete the entry.
StoreEntry(r) ==
    /\ leg[r] = "store"
    /\ entry' = r
    /\ Hitch(IF \E q \in Together(r) : leg[q] = "seen" /\ cached[q] \in expired
                THEN {"late"} ELSE {})
    /\ Go(r, "settle")
    /\ UNCHANGED <<routeVars, expired, busy, inFlight, cached, reply, executed>>

\* cache.set throws, with or without effect: the trade is done, the answer an error.
StoreFails(r) ==
    /\ "cache" \in KeyFaults
    /\ leg[r] = "store"
    /\ entry' \in {entry, r}
    /\ Hitch({"cache"})
    /\ Settle(r, NoRequest)
    /\ UNCHANGED <<routeVars, expired, busy, cached, executed>>

\* An answer of the cache is late, too, if a miss is acted on after the execution.
SettleExecution(r) ==
    /\ leg[r] = "settle"
    /\ Hitch(IF \E q \in Together(r) : Missed(q) THEN {"late"} ELSE {})
    /\ Settle(r, r)
    /\ UNCHANGED <<routeVars, entry, expired, busy, cached, executed>>

-----------------------------------------------------------------------------
(* The response, time and failures *)

End(r) == Go(r, "done") /\ reply' = [reply EXCEPT ![r] = NoRequest]

\* Mutant: an error answer does not free the key.
FinishKeepsKey(r) ==
    /\ leg[r] = "respond"
    /\ busy' = IF reply[r] = NoRequest THEN busy ELSE busy \ {servedBy[r]}
    /\ End(r)
    /\ UNCHANGED <<routeVars, entry, expired, inFlight, cached, executed, hitch>>

\* "finish": the listener of the guard frees the key.
Finish(r) ==
    /\ leg[r] = "respond"
    /\ busy' = busy \ {servedBy[r]}
    /\ End(r)
    /\ UNCHANGED <<routeVars, entry, expired, inFlight, cached, executed, hitch>>

\* The client is gone: "close" comes without "finish", and the key stays.
Disconnect(r) ==
    /\ "disconnect" \in KeyFaults
    /\ leg[r] = "respond"
    /\ Hitch({"disconnect"})
    /\ End(r)
    /\ UNCHANGED <<routeVars, entry, expired, busy, inFlight, cached, executed>>

\* ttlMs pass; the cache drops the entry some time later.
Expire(x) ==
    /\ x \in executed \ expired /\ leg[x] \in {"respond", "done"}
    /\ expired' = expired \cup {x}
    /\ UNCHANGED <<routeVars, entry, busy, inFlight, leg, cached, reply, executed, hitch>>

DropExpired ==
    /\ entry \in expired
    /\ entry' = NoRequest
    /\ UNCHANGED <<routeVars, expired, busy, inFlight, leg, cached, reply, executed, hitch>>

\* Both maps are gone, and so are the requests.
RestartReplica(p) ==
    /\ "crash" \in KeyFaults
    /\ p \in busy \/ \E r \in KeyedRequests : servedBy[r] = p /\ InProgress(r)
    /\ LET lost == {r \in KeyedRequests : servedBy[r] = p /\ InProgress(r)}
       IN  /\ leg' = [r \in KeyedRequests |-> IF r \in lost THEN "done" ELSE leg[r]]
           /\ cached' = [r \in KeyedRequests |-> IF r \in lost THEN NoRequest ELSE cached[r]]
           /\ reply' = [r \in KeyedRequests |-> IF r \in lost THEN NoRequest ELSE reply[r]]
    /\ busy' = busy \ {p}
    /\ inFlight' = [inFlight EXCEPT ![p] = NoRequest]
    /\ Hitch({"crash"})
    /\ UNCHANGED <<routeVars, entry, expired, executed>>

-----------------------------------------------------------------------------
KeyStep(r) ==
    \/ ReadEntry(r) \/ ReadFails(r) \/ Replay(r) \/ RejectReuse(r)
    \/ EvictExpired(r) \/ EvictFails(r) \/ JoinExecution(r) \/ StartHandler(r)
    \/ HandlerReturns(r) \/ HandlerThrows(r)
    \/ StoreEntry(r) \/ StoreFails(r) \/ SettleExecution(r) \/ Finish(r) \/ Disconnect(r)

KeyNext ==
    \/ \E r \in KeyedRequests : GuardRefuses(r) \/ Admit(r) \/ KeyStep(r) \/ Expire(r)
    \/ DropExpired
    \/ \E p \in KeyReplicas : RestartReplica(p)

KeySpec == KeyInit /\ [][KeyNext]_keyVars

-----------------------------------------------------------------------------
(* Properties *)

\* "only one execution happens": while an entry lives the handler succeeds once, with
\* and without the guard, whatever expires, throws or disconnects; until requests
\* meet in two replicas, the cache answers late or fails, or a replica restarts.
OneExecution == hitch \subseteq {"disconnect"} => \A x, y \in executed \ expired : x = y

\* On a guarded route nobody is answered with the response to another body, through
\* replicas, stale look-ups, evictions and restarts.  (Without the guard a request
\* with another body shares an execution in flight.)
AnswerIsOwn ==
    guarded = "yes" =>
        \A r \in KeyedRequests : reply[r] # NoRequest => BodyOf[reply[r]] = BodyOf[r]

\* The guard refuses a key only while a request with it is being served, whether the
\* others were answered, refused, failed or lost with their replica; until a client
\* disconnects before its response is finished, which leaves the key refused.
BusyIsServed ==
    "disconnect" \notin hitch =>
        \A p \in busy : \E r \in KeyedRequests : servedBy[r] = p /\ InProgress(r)
=============================================================================
