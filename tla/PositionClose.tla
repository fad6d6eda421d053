----------------------------- MODULE PositionClose -----------------------------
(***************************************************************************)
(* Everything that writes the row of an open position: closeTrade (with or *)
(* without a version token), closePartial, the stop-loss / take-profit     *)
(* cron enforceRiskLevels and setRiskLevels, on ONE completed trade.       *)
(*                                                                         *)
(* Each is a handler that loads the row, awaits the chain and saves what   *)
(* it loaded.  repository.save compares the loaded entity with the row and *)
(* writes every column that differs, so it writes back stale amount,       *)
(* closedAt and version alike: Trade.version is a plain column.            *)
(***************************************************************************)
EXTENDS Integers, FiniteSets

CONSTANTS Closers,    \* closeTrade requests
          Partials,   \* closePartial requests
          Ticks,      \* runs of enforceRiskLevels that find a level reached
          Setters,    \* setRiskLevels requests
          Total,      \* size of the position
          Tokens,     \* version tokens a client may send besides the one it read
          Faults      \* subset of {"chain", "db"}

ASSUME CallersAssumption ==
    /\ Closers \cap Partials = {} /\ Closers \cap Ticks = {} /\ Closers \cap Setters = {}
    /\ Partials \cap Ticks = {} /\ Partials \cap Setters = {} /\ Ticks \cap Setters = {}
ASSUME TotalAssumption == Total \in Nat \ {0}
ASSUME TokensAssumption == Tokens \subseteq Nat \ {0}

Calls == Closers \cup Partials \cup Ticks \cup Setters

VARIABLES amount, closed, version,   \* the columns amount, closedAt, version
          event,      \* trade.position.closed is in the outbox
          chain,      \* amount closed on chain so far
          children,   \* amount in the closed child rows of partial closes
          copy,       \* the entity each call loaded
          part,       \* amountToClose of each call
          expected,   \* version token of each close; 0 when it sends none
          pc,
          weather,    \* "rough" once calls overlapped, a save failed or an answer was lost
          versions    \* "rewound" once a save wrote an older version back

rowVars == <<amount, closed, version>>
positionVars == <<amount, closed, version, event, chain, children, copy, part, expected, pc, weather,
                  versions>>

Row == [amount |-> amount, closed |-> closed, version |-> version]
Entity == [amount : Nat, closed : BOOLEAN, version : Nat]
NoEntity == [amount |-> 0, closed |-> FALSE, version |-> 0]
Labels == {"token", "load", "guard", "refetch", "chain", "save", "saveParent", "done", "refused"}

PositionTypeOK ==
    /\ amount \in 1..Total /\ closed \in BOOLEAN /\ version \in Nat \ {0}
    /\ event \in BOOLEAN /\ chain \in Nat /\ children \in Nat
    /\ copy \in [Calls -> Entity]
    /\ part \in [Calls -> 0..Total]
    /\ expected \in [Calls -> Nat]
    /\ pc \in [Calls -> Labels]
    /\ weather \in {"calm", "rough"}
    /\ versions \in {"forward", "rewound"}

PositionInit ==
    /\ amount = Total /\ closed = FALSE /\ version = 1
    /\ event = FALSE /\ chain = 0 /\ children = 0
    /\ copy = [p \in Calls |-> NoEntity]
    /\ part = [p \in Calls |-> 0]
    /\ expected = [p \in Calls |-> 0]
    /\ pc = [p \in Calls |-> IF p \in Closers THEN "token" ELSE "load"]
    /\ weather = "calm"
    /\ versions = "forward"

Goto(p, label) == pc' = [pc EXCEPT ![p] = label]
\* The call answers, and what it loaded is gone; the token of a close that went
\* through is kept for TokenPassesOnce.
Return(p, label) ==
    /\ Goto(p, label)
    /\ copy' = [copy EXCEPT ![p] = NoEntity]
    /\ part' = [part EXCEPT ![p] = 0]
    /\ expected' = [expected EXCEPT ![p] = IF label = "done" THEN @ ELSE 0]
InFlight(p) == pc[p] \notin {"token", "load", "done", "refused"}
Quiet == \A p \in Calls : ~InFlight(p)

-----------------------------------------------------------------------------
(* Loading and checking *)

\* The client sends the version it last fetched, any other number from 1 on, or no
\* token at all.
ReadToken(p) ==
    /\ pc[p] = "token"
    /\ \E v \in Tokens \cup {0, version} : expected' = [expected EXCEPT ![p] = v]
    /\ Goto(p, "load")
    /\ UNCHANGED <<rowVars, event, chain, children, copy, part, weather, versions>>

\* findOne, and the check that the trade is open.  A tick selects open trades
\* only; the others answer with an error.
Load(p) ==
    /\ pc[p] = "load"
    /\ weather' = IF Quiet THEN weather ELSE "rough"
    /\ IF closed
          THEN Return(p, "refused")
          ELSE /\ copy' = [copy EXCEPT ![p] = Row]
               /\ Goto(p, CASE p \in Closers /\ expected[p] # 0 -> "guard"
                            [] p \in Setters -> "save"
                            [] OTHER -> "chain")
               /\ UNCHANGED <<part, expected>>
    /\ UNCHANGED <<rowVars, event, chain, children, versions>>

\* Mutant: the guard compares the version and leaves it as it is.
GuardUnbumped(p) ==
    /\ pc[p] = "guard"
    /\ version = expected[p]
    /\ Goto(p, "refetch")
    /\ UNCHANGED <<rowVars, event, chain, children, copy, part, expected, weather, versions>>

\* closeTrade: updateWithVersionCheck with no other change.
Guard(p) ==
    /\ pc[p] = "guard"
    /\ version = expected[p]
    /\ version' = version + 1
    /\ Goto(p, "refetch")
    /\ UNCHANGED <<amount, closed, event, chain, children, copy, part, expected, weather, versions>>

GuardConflict(p) ==
    /\ pc[p] = "guard"
    /\ version # expected[p]
    /\ Return(p, "refused")
    /\ UNCHANGED <<rowVars, event, chain, children, weather, versions>>

\* closeTrade: Object.assign(trade, refreshed); nothing is checked again.
Refetch(p) ==
    /\ pc[p] = "refetch"
    /\ copy' = [copy EXCEPT ![p] = Row]
    /\ Goto(p, "chain")
    /\ UNCHANGED <<rowVars, event, chain, children, part, expected, weather, versions>>

-----------------------------------------------------------------------------
(* On chain *)

\* tradeExecutor.closeTrade(trade, exitPrice): the whole loaded amount.
CloseOnChain(p) ==
    /\ p \in Closers \cup Ticks
    /\ pc[p] = "chain"
    /\ chain' = chain + copy[p].amount
    /\ Goto(p, "save")
    /\ UNCHANGED <<rowVars, event, children, copy, part, expected, weather, versions>>

\* closePartial: less than the position, or the request is refused.
ClosePartOnChain(p) ==
    /\ p \in Partials
    /\ pc[p] = "chain"
    /\ \E a \in 1..Total :
          /\ a < copy[p].amount
          /\ part' = [part EXCEPT ![p] = a]
          /\ chain' = chain + a
    /\ Goto(p, "save")
    /\ UNCHANGED <<rowVars, event, children, copy, expected, weather, versions>>

\* closePartial asks for too much, or the chain refuses: an error answer (a
\* tick only logs it).
ChainRefuses(p) ==
    /\ pc[p] = "chain"
    /\ p \in Partials \/ "chain" \in Faults
    /\ Return(p, "refused")
    /\ UNCHANGED <<rowVars, event, chain, children, weather, versions>>

\* The chain closes what it was asked to close and the answer is lost: the
\* caller is told that it failed.
ChainLosesAnswer(p) ==
    /\ "chain" \in Faults
    /\ pc[p] = "chain"
    /\ \E a \in 1..Total :
          /\ IF p \in Partials THEN a < copy[p].amount ELSE a = copy[p].amount
          /\ chain' = chain + a
    /\ weather' = "rough"
    /\ Return(p, "refused")
    /\ UNCHANGED <<rowVars, event, children, versions>>

-----------------------------------------------------------------------------
(* Saving *)

SaveEntity(a, c, v) ==
    /\ amount' = a /\ closed' = c /\ version' = v
    /\ versions' = IF v < version THEN "rewound" ELSE versions

\* Mutant: the event is recorded after the transaction, and not at all here.
SaveClosedNoEvent(p) ==
    /\ p \in Closers
    /\ pc[p] = "save"
    /\ SaveEntity(copy[p].amount, TRUE, copy[p].version)
    /\ Return(p, "done")
    /\ UNCHANGED <<event, chain, children, weather>>

\* closeTrade: one transaction saves the closed trade and records the event.
SaveClosed(p) ==
    /\ p \in Closers
    /\ pc[p] = "save"
    /\ SaveEntity(copy[p].amount, TRUE, copy[p].version)
    /\ event' = TRUE
    /\ Return(p, "done")
    /\ UNCHANGED <<chain, children, weather>>

\* checkAndEnforce: save only.
SaveTriggered(p) ==
    /\ p \in Ticks
    /\ pc[p] = "save"
    /\ SaveEntity(copy[p].amount, TRUE, copy[p].version)
    /\ Return(p, "done")
    /\ UNCHANGED <<event, chain, children, weather>>

\* closePartial saves the closed child first ...
SaveChild(p) ==
    /\ p \in Partials
    /\ pc[p] = "save"
    /\ children' = children + part[p]
    /\ Goto(p, "saveParent")
    /\ UNCHANGED <<rowVars, event, chain, copy, part, expected, weather, versions>>

\* Mutant: the remaining amount is not written.
SaveParentUnreduced(p) ==
    /\ pc[p] = "saveParent"
    /\ SaveEntity(copy[p].amount, copy[p].closed, copy[p].version)
    /\ Return(p, "done")
    /\ UNCHANGED <<event, chain, children, weather>>

\* ... then the original with what remains of the amount it loaded.
SaveParent(p) ==
    /\ pc[p] = "saveParent"
    /\ SaveEntity(copy[p].amount - part[p], copy[p].closed, copy[p].version)
    /\ Return(p, "done")
    /\ UNCHANGED <<event, chain, children, weather>>

\* setRiskLevels saves the levels, which are not modelled, and all it loaded.
SaveLevels(p) ==
    /\ p \in Setters
    /\ pc[p] = "save"
    /\ SaveEntity(copy[p].amount, copy[p].closed, copy[p].version)
    /\ Return(p, "done")
    /\ UNCHANGED <<event, chain, children, weather>>

\* A save or its transaction fails: an error answer, whatever the chain did.
SaveFails(p) ==
    /\ "db" \in Faults
    /\ pc[p] \in {"save", "saveParent"}
    /\ weather' = "rough"
    /\ Return(p, "refused")
    /\ UNCHANGED <<rowVars, event, chain, children, versions>>

CallStep(p) ==
    \/ ReadToken(p) \/ Load(p) \/ Guard(p) \/ GuardConflict(p) \/ Refetch(p)
    \/ CloseOnChain(p) \/ ClosePartOnChain(p) \/ ChainRefuses(p)
    \/ ChainLosesAnswer(p)
    \/ SaveClosed(p) \/ SaveTriggered(p) \/ SaveChild(p) \/ SaveParent(p)
    \/ SaveLevels(p) \/ SaveFails(p)

PositionNext == \E p \in Calls : CallStep(p)

PositionSpec == PositionInit /\ [][PositionNext]_positionVars

-----------------------------------------------------------------------------
(* Properties *)

\* A position closed by its owner is announced in the same commit, however many
\* closes race: without an event, only the risk cron can have closed it.
ClosedIsAnnounced ==
    closed => event \/ \E p \in Ticks : pc[p] = "done"

PastGuard(p) == expected[p] # 0 /\ pc[p] \in {"refetch", "chain", "save", "done"}

\* A version token lets one close through to the chain: of two closes that carry
\* the same token the second is told of the conflict, however they interleave and
\* whatever the others write, until a save of a stale entity puts an older version
\* back into the row.
TokenPassesOnce ==
    versions = "forward" =>
        \A p, q \in Closers :
            PastGuard(p) /\ PastGuard(q) /\ expected[p] = expected[q] => p = q

Remaining == IF closed THEN 0 ELSE amount

\* As long as calls come one by one, no save fails and no answer is lost, what the
\* row says is left plus what was closed on chain is the position, and the children
\* of partial closes account for all of the chain that the row itself does not.
BooksBalance ==
    weather = "calm" /\ Quiet =>
        /\ Remaining + chain = Total
        /\ amount + children = Total
=============================================================================
