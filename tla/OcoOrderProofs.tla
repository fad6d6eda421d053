---------------------------- MODULE OcoOrderProofs -----------------------------
(***************************************************************************)
(* Proofs about two rows that are written back from copies: the order of   *)
(* OcoOrder, for any number of concurrent checks and cancels and any set   *)
(* of faults; and the failed trade of TradeDlq, for any number of jobs,    *)
(* retries and discards.                                                   *)
(***************************************************************************)
EXTENDS OcoOrder, TradeDlq, FiniteSetTheorems, TLAPS

-----------------------------------------------------------------------------
(* One-cancels-the-other orders *)

\* The version as an optimistic lock: a call in flight that would still pass
\* the check of updateWithVersionCheck loaded the row as it is now, and it
\* loaded it ACTIVE.  Versions only grow, so a call that lost never wins.
LockInv ==
    /\ \A p \in Calls : pc[p] \notin {"idle", "done"} =>
          /\ read[p] <= version
          /\ read[p] = version => status = "ACTIVE"
    /\ creator = "start" => version = 0 /\ status = "none"

\* The functions of the calls have the calls as their domain.
Shape ==
    /\ version \in Nat
    /\ pc \in [Calls -> PCs]
    /\ read \in [Calls -> Nat]

\* The inductive invariant behind EndedIsFinal.
OcoInv == Shape /\ LockInv

\* It holds before createOrder.
LEMMA OcoInitInv == OcoInit => OcoInv
BY DEF OcoInit, OcoInv, Shape, LockInv, PCs

\* Creation writes the row without the check and bumps the version: every
\* call in flight is outdated by it.
LEMMA CreateInv == OcoInv /\ CreateStep => OcoInv'
<1> SUFFICES ASSUME OcoInv, CreateStep PROVE OcoInv'
  OBVIOUS
<1> USE DEF OcoInv, Shape, LockInv, PCs, callVars
<1>1. CASE CreateRow
  BY <1>1 DEF CreateRow
<1>2. CASE PlaceLegs
  BY <1>2 DEF PlaceLegs, orderVars
<1>3. CASE PlaceLegsFails
  BY <1>3 DEF PlaceLegsFails, orderVars
<1>4. CASE SaveIds
  BY <1>4 DEF SaveIds, SaveCreated
<1>5. CASE CancelCreated
  BY <1>5 DEF CancelCreated, SaveCreated
<1>6. CASE SaveFails
  BY <1>6 DEF SaveFails, orderVars
<1> QED
  BY <1>1, <1>2, <1>3, <1>4, <1>5, <1>6 DEF CreateStep

\* Steps of a check keep it.
LEMMA CheckInv == ASSUME NEW p \in Checks, OcoInv, CheckStep(p) PROVE OcoInv'
<1> USE DEF OcoInv, Shape, LockInv, PCs
<1>0. p \in Calls
  BY DEF Calls
<1>1. CASE LoadCheck(p)
  BY <1>0, <1>1 DEF LoadCheck, Load, orderVars
<1>2. CASE ProbeStopLoss(p)
  BY <1>0, <1>2 DEF ProbeStopLoss, orderVars
<1>3. CASE ProbeTakeProfit(p)
  BY <1>0, <1>3 DEF ProbeTakeProfit, orderVars, Idle
<1>4. CASE CancelSibling(p)
  BY <1>0, <1>4 DEF CancelSibling, orderVars
<1>5. CASE MarkFilled(p)
  BY <1>0, <1>5 DEF MarkFilled, Unmodified, Idle
<1>6. CASE MarkFilledRefused(p)
  BY <1>0, <1>6 DEF MarkFilledRefused, orderVars, Idle
<1> QED
  BY <1>1, <1>2, <1>3, <1>4, <1>5, <1>6 DEF CheckStep, CheckGoesOn

\* Steps of a cancel keep it.
LEMMA CancelInv == ASSUME NEW c \in Cancels, OcoInv, CancelStep(c) PROVE OcoInv'
<1> USE DEF OcoInv, Shape, LockInv, PCs
<1>0. c \in Calls
  BY DEF Calls
<1>1. CASE LoadCancel(c)
  BY <1>0, <1>1 DEF LoadCancel, Load, orderVars
<1>2. CASE CancelLeg(c)
  BY <1>0, <1>2 DEF CancelLeg, Legs, orderVars
<1>3. CASE MarkCancelled(c)
  BY <1>0, <1>3 DEF MarkCancelled, Unmodified, Answer
<1>4. CASE MarkCancelledRefused(c)
  BY <1>0, <1>4 DEF MarkCancelledRefused, orderVars, Answer
<1> QED
  BY <1>1, <1>2, <1>3, <1>4 DEF CancelStep

\* Every step keeps it.
LEMMA OcoNextInv == OcoInv /\ [OcoNext]_ocoVars => OcoInv'
<1> SUFFICES ASSUME OcoInv, [OcoNext]_ocoVars PROVE OcoInv'
  OBVIOUS
<1>1. CASE CreateStep
  BY <1>1, CreateInv
<1>2. ASSUME NEW p \in Checks, CheckStep(p) PROVE OcoInv'
  BY <1>2, CheckInv
<1>3. ASSUME NEW c \in Cancels, CancelStep(c) PROVE OcoInv'
  BY <1>3, CancelInv
<1>4. ASSUME NEW l \in Legs, Fill(l) PROVE OcoInv'
  BY <1>4 DEF Fill, OcoInv, Shape, LockInv, orderVars, callVars
<1>5. CASE UNCHANGED ocoVars
  BY <1>5 DEF ocoVars, OcoInv, Shape, LockInv, orderVars, callVars
<1> QED
  BY <1>1, <1>2, <1>3, <1>4, <1>5 DEF OcoNext

\* The version discipline of checkAndExecute, cancelOrder and createOrder.
THEOREM VersionLocks == OcoSpec => []OcoInv
BY OcoInitInv, OcoNextInv, PTL DEF OcoSpec

\* Once creation is over, no call changes an order that has ended.
LEMMA EndedStep ==
    ASSUME OcoInv, [OcoNext]_ocoVars, status \in Ended, creator = "done"
    PROVE  UNCHANGED <<status, triggered>>
<1> USE DEF Ended
<1>1. CASE CreateStep
  BY <1>1 DEF CreateStep, CreateRow, PlaceLegs, PlaceLegsFails, SaveIds, CancelCreated, SaveFails
<1>2. ASSUME NEW p \in Checks, CheckStep(p) PROVE UNCHANGED <<status, triggered>>
  <2>1. ~MarkFilled(p)
    BY DEF MarkFilled, Unmodified, OcoInv, LockInv, Calls
  <2> QED
    BY <1>2, <2>1, Zenon DEF CheckStep, CheckGoesOn, LoadCheck, Load, ProbeStopLoss, ProbeTakeProfit,
       CancelSibling, MarkFilledRefused, orderVars
<1>3. ASSUME NEW c \in Cancels, CancelStep(c) PROVE UNCHANGED <<status, triggered>>
  <2>1. ~MarkCancelled(c)
    BY DEF MarkCancelled, Unmodified, OcoInv, LockInv, Calls
  <2> QED
    BY <1>3, <2>1, Zenon DEF CancelStep, LoadCancel, Load, CancelLeg, MarkCancelledRefused, orderVars
<1>4. ASSUME NEW l \in Legs, Fill(l) PROVE UNCHANGED <<status, triggered>>
  BY <1>4 DEF Fill, orderVars
<1>5. CASE UNCHANGED ocoVars
  BY <1>5 DEF ocoVars, orderVars
<1> QED
  BY <1>1, <1>2, <1>3, <1>4, <1>5 DEF OcoNext

\* EndedIsFinal: a filled or cancelled order keeps its status and the leg it
\* names, however many checks and cancels run and whatever fails.
THEOREM EndedStaysEnded == OcoSpec => EndedIsFinal
<1>1. OcoInv /\ [OcoNext]_ocoVars =>
        [(status \in Ended /\ creator = "done") => UNCHANGED <<status, triggered>>]_ocoVars
  BY EndedStep
<1> QED
  BY <1>1, VersionLocks, PTL DEF OcoSpec, EndedIsFinal

\* The calls in flight.
Active(p) == pc[p] \notin {"idle", "done"}

\* Types, and what a call that is not under way knows.
OcoShape ==
    /\ ids \subseteq Legs /\ made \subseteq Legs /\ triggered \subseteq Legs
    /\ book \in [Legs -> {"none", "open", "filled", "cancelled"}]
    /\ known \in [Calls -> SUBSET Legs]
    /\ gone \in [Calls -> SUBSET Legs]
    /\ errors \in [Calls -> 0..2]
    /\ creator # "done" =>
          ids = {} /\ triggered = {} /\ \A p \in Calls : known[p] = {} /\ gone[p] = {}
    /\ \A p \in Calls :
          /\ pc[p] \notin {"TAKE_PROFIT", "mark", "done"} => errors[p] = 0
          /\ pc[p] = "TAKE_PROFIT" => errors[p] <= 1
          /\ pc[p] = "idle" => gone[p] = {}
          /\ pc[p] \in {"sibling", "update"} => gone[p] # {}

\* While no write failed, the row knows both offers once createOrder is over; a
\* call that can still win loaded both, and removes them one after the other.
ClearInv ==
    trouble \subseteq {"overlap"} =>
        /\ creator # "fail"
        /\ creator \in {"save", "done"} => \A l \in Legs : book[l] # "none"
        /\ creator = "save" => made = Legs
        /\ creator = "done" => ids = Legs
        /\ creator = "done" /\ status \in Ended => \A l \in Legs : book[l] # "open"
        /\ \A p \in Calls : Active(p) =>
              /\ \A l \in gone[p] : book[l] \notin {"none", "open"}
              /\ creator = "done" /\ read[p] = version =>
                    /\ known[p] = Legs
                    /\ pc[p] \in {"update", "mark"} => \A l \in Legs : book[l] # "open"
                    /\ pc[p] = "TAKE_PROFIT" => book["STOP_LOSS"] # "open"

\* While calls do not overlap, no statement fails and no delete takes effect
\* without saying so, at most one call is in flight; offers are known only once
\* createOrder is over, when that call alone writes the row.  A cancelled offer
\* therefore belongs to an order that has ended, or to a call that will end it.
SoloInv ==
    trouble \cap {"overlap", "late", "db"} = {} =>
        /\ \A p, q \in Calls : Active(p) /\ Active(q) => p = q
        /\ TriggeredWasFilled
        /\ \A p \in Calls :
              /\ Active(p) /\ known[p] # {} => creator = "done" /\ read[p] = version
              /\ Active(p) => \A l \in gone[p] : l \in known[p] /\ book[l] = "filled"
        /\ \A l \in Legs : book[l] = "cancelled" =>
              /\ creator = "done"
              /\ \/ status \in Ended
                 \/ \E p \in Calls :
                       /\ Active(p) /\ known[p] # {}
                       /\ \/ pc[p] = "update"
                          \/ pc[p] = "TAKE_PROFIT" /\ l = "STOP_LOSS" /\ errors[p] = 0
                          \/ pc[p] = "mark" /\ errors[p] <= 1

\* The inductive invariant of the order.
OcoFullInv == OcoInv /\ OcoShape /\ ClearInv /\ SoloInv

\* OcoFullInv holds before createOrder.
LEMMA OcoFullInitially == OcoInit => OcoFullInv
BY OcoInitInv DEF OcoInit, OcoFullInv, OcoShape, ClearInv, SoloInv, Active, Legs, Ended,
   TriggeredWasFilled

\* A leg has one sibling.
LEMMA SiblingOf == Sibling("STOP_LOSS") = "TAKE_PROFIT" /\ Sibling("TAKE_PROFIT") = "STOP_LOSS"
BY DEF Sibling, Legs

\* A delete that fails is noted.
LEMMA FailedDeleteIsNoted ==
    ASSUME NEW p \in Calls, NEW l \in Legs, DeleteFails(p, l)
    PROVE  ~(trouble' \subseteq {"overlap"})
BY DEF DeleteFails, MetIf

\* What a probe adds to the legs found gone is gone.
LEMMA StopLossProbed ==
    ASSUME OcoFullInv, NEW p \in Checks, ProbeStopLoss(p)
    PROVE  /\ gone'[p] \in SUBSET Legs /\ gone' = [gone EXCEPT ![p] = gone'[p]]
           /\ gone'[p] # {} => gone'[p] = {"STOP_LOSS"} /\ IsGone(p, "STOP_LOSS")
           /\ trouble' = trouble
<1> USE DEF OcoFullInv, OcoShape, Calls, Legs
<1>1. PICK yes \in IsOfferFilled(p, "STOP_LOSS") :
        gone' = [gone EXCEPT ![p] = IF yes THEN {"STOP_LOSS"} ELSE {}]
  BY Zenon DEF ProbeStopLoss
<1>2. yes => IsGone(p, "STOP_LOSS")
  BY <1>1, Zenon DEF IsOfferFilled
<1>3. /\ gone'[p] \in SUBSET Legs /\ gone' = [gone EXCEPT ![p] = gone'[p]]
      /\ gone'[p] # {} => gone'[p] = {"STOP_LOSS"} /\ yes
  BY <1>1
<1> QED
  BY <1>2, <1>3 DEF ProbeStopLoss

\* The check of the second leg.
LEMMA TakeProfitProbed ==
    ASSUME OcoFullInv, NEW p \in Checks, ProbeTakeProfit(p)
    PROVE  /\ trouble' = trouble
           /\ \/ Idle(p)
              \/ /\ gone'[p] \in SUBSET Legs /\ gone'[p] # {} /\ gone' = [gone EXCEPT ![p] = gone'[p]]
                 /\ \A l \in gone'[p] :
                       l \in gone[p] \/ (l = "TAKE_PROFIT" /\ IsGone(p, "TAKE_PROFIT"))
                 /\ pc' = [pc EXCEPT ![p] = "sibling"]
                 /\ UNCHANGED <<read, known, errors>>
<1> USE DEF OcoFullInv, OcoShape, Calls, Legs
<1>1. PICK yes \in IsOfferFilled(p, "TAKE_PROFIT") :
        IF gone[p] = {} /\ ~yes
           THEN Idle(p)
           ELSE /\ gone' = [gone EXCEPT ![p] = IF yes THEN @ \cup {"TAKE_PROFIT"} ELSE @]
                /\ pc' = [pc EXCEPT ![p] = "sibling"]
                /\ UNCHANGED <<read, known, errors>>
  BY DEF ProbeTakeProfit
<1>2. yes => IsGone(p, "TAKE_PROFIT")
  BY <1>1, Zenon DEF IsOfferFilled
<1>3. trouble' = trouble
  BY DEF ProbeTakeProfit
<1>4. CASE gone[p] = {} /\ ~yes
  BY <1>1, <1>3, <1>4
<1>5. CASE yes
  BY <1>1, <1>2, <1>3, <1>5
<1>6. CASE gone[p] # {} /\ ~yes
  BY <1>1, <1>3, <1>6
<1> QED
  BY <1>4, <1>5, <1>6

\* Types.
LEMMA OcoShapeKept ==
    ASSUME OcoFullInv, [OcoNext]_ocoVars PROVE OcoShape'
<1> USE SiblingOf
        DEF OcoFullInv, OcoInv, Shape, LockInv, OcoShape, Active, Legs, Calls, PCs,
            orderVars, callVars
<1>1. CASE CreateRow
  BY <1>1 DEF CreateRow
<1>2. CASE PlaceLegs
  BY <1>2 DEF PlaceLegs, MetIf
<1>3. CASE PlaceLegsFails
  BY <1>3 DEF PlaceLegsFails, MetIf
<1>4. CASE SaveIds
  BY <1>4 DEF SaveIds, SaveCreated
<1>5. CASE CancelCreated
  BY <1>5 DEF CancelCreated, SaveCreated
<1>6. CASE SaveFails
  BY <1>6 DEF SaveFails, MetIf
<1>7. ASSUME NEW p \in Checks, LoadCheck(p) PROVE OcoShape'
  <2>1. trouble' = trouble \/ trouble' = trouble \cup {"overlap"}
    BY <1>7 DEF LoadCheck, Load, MetIf
  <2>2. (\E q \in Calls : Active(q)) => "overlap" \in trouble'
    BY <1>7 DEF LoadCheck, Load, MetIf
  <2> QED
    BY <1>7, <2>1, <2>2, ZenonT(30) DEF LoadCheck, Load
<1>8. ASSUME NEW p \in Checks, ProbeStopLoss(p) PROVE OcoShape'
  <2>1. /\ gone'[p] \in SUBSET Legs /\ gone' = [gone EXCEPT ![p] = gone'[p]]
        /\ gone'[p] # {} => gone'[p] = {"STOP_LOSS"} /\ IsGone(p, "STOP_LOSS")
        /\ trouble' = trouble
    BY <1>8, StopLossProbed, ZenonT(30)
  <2> QED
    BY <1>8, <2>1 DEF ProbeStopLoss, IsGone
<1>9. ASSUME NEW p \in Checks, ProbeTakeProfit(p) PROVE OcoShape'
  <2>1. CASE Idle(p)
    BY <1>9, <2>1, TakeProfitProbed, Zenon DEF ProbeTakeProfit, Idle
  <2>2. CASE ~Idle(p)
    <3>1. /\ gone'[p] \in SUBSET Legs /\ gone'[p] # {} /\ gone' = [gone EXCEPT ![p] = gone'[p]]
          /\ \A l \in gone'[p] :
                l \in gone[p] \/ (l = "TAKE_PROFIT" /\ IsGone(p, "TAKE_PROFIT"))
          /\ pc' = [pc EXCEPT ![p] = "sibling"] /\ UNCHANGED <<read, known, errors>>
          /\ trouble' = trouble
      BY <1>9, <2>2, TakeProfitProbed
    <3> QED
      BY <1>9, <3>1 DEF ProbeTakeProfit, IsGone
  <2> QED
    BY <2>1, <2>2
<1>10. ASSUME NEW p \in Checks, CancelSibling(p) PROVE OcoShape'
  BY <1>10 DEF CancelSibling, DeleteFails, Deleted, MetIf, TriggeredLeg
<1>11. ASSUME NEW p \in Checks, MarkFilled(p) PROVE OcoShape'
  BY <1>11 DEF MarkFilled, Idle, Unmodified, TriggeredLeg
<1>12. ASSUME NEW p \in Checks, MarkFilledRefused(p) PROVE OcoShape'
  BY <1>12 DEF MarkFilledRefused, Idle, Unmodified, MetIf
<1>13. ASSUME NEW c \in Cancels, LoadCancel(c) PROVE OcoShape'
  <2>1. trouble' = trouble \/ trouble' = trouble \cup {"overlap"}
    BY <1>13 DEF LoadCancel, Load, MetIf
  <2>2. (\E q \in Calls : Active(q)) => "overlap" \in trouble'
    BY <1>13 DEF LoadCancel, Load, MetIf
  <2> QED
    BY <1>13, <2>1, <2>2, Zenon DEF LoadCancel, Load
<1>14. ASSUME NEW c \in Cancels, CancelLeg(c) PROVE OcoShape'
  BY <1>14 DEF CancelLeg, DeleteFails, Deleted, MetIf
<1>15. ASSUME NEW c \in Cancels, MarkCancelled(c) PROVE OcoShape'
  BY <1>15 DEF MarkCancelled, Answer, Unmodified
<1>16. ASSUME NEW c \in Cancels, MarkCancelledRefused(c) PROVE OcoShape'
  BY <1>16 DEF MarkCancelledRefused, Answer, Unmodified, MetIf
<1>17. ASSUME NEW l \in Legs, Fill(l) PROVE OcoShape'
  BY <1>17 DEF Fill
<1>18. CASE UNCHANGED ocoVars
  BY <1>18 DEF ocoVars
<1> QED
  BY <1>1, <1>2, <1>3, <1>4, <1>5, <1>6, <1>7, <1>8, <1>9, <1>10, <1>11, <1>12, <1>13,
     <1>14, <1>15, <1>16, <1>17, <1>18, ZenonT(30)
     DEF OcoNext, CreateStep, CheckStep, CheckGoesOn, CancelStep

\* While nothing fails an ended order leaves no offer in the book.
LEMMA ClearKept ==
    ASSUME OcoFullInv, [OcoNext]_ocoVars PROVE ClearInv'
<1> USE SiblingOf
        DEF OcoFullInv, OcoInv, Shape, LockInv, OcoShape, Active, Legs, Calls, PCs,
            orderVars, callVars, ClearInv, Ended
<1>1. CASE CreateRow
  BY <1>1 DEF CreateRow
<1>2. CASE PlaceLegs
  BY <1>2 DEF PlaceLegs, MetIf
<1>3. CASE PlaceLegsFails
  BY <1>3 DEF PlaceLegsFails, MetIf
<1>4. CASE SaveIds
  BY <1>4 DEF SaveIds, SaveCreated
<1>5. CASE CancelCreated
  BY <1>5 DEF CancelCreated, SaveCreated
<1>6. CASE SaveFails
  BY <1>6, ZenonT(30) DEF SaveFails, MetIf
<1>7. ASSUME NEW p \in Checks, LoadCheck(p) PROVE ClearInv'
  <2>1. trouble' = trouble \/ trouble' = trouble \cup {"overlap"}
    BY <1>7 DEF LoadCheck, Load, MetIf
  <2>2. (\E q \in Calls : Active(q)) => "overlap" \in trouble'
    BY <1>7, ZenonT(30) DEF LoadCheck, Load, MetIf
  <2> QED
    BY <1>7, <2>1, <2>2, ZenonT(30) DEF LoadCheck, Load
<1>8. ASSUME NEW p \in Checks, ProbeStopLoss(p) PROVE ClearInv'
  <2>1. /\ gone'[p] \in SUBSET Legs /\ gone' = [gone EXCEPT ![p] = gone'[p]]
        /\ gone'[p] # {} => gone'[p] = {"STOP_LOSS"} /\ IsGone(p, "STOP_LOSS")
        /\ trouble' = trouble
    BY <1>8, StopLossProbed, ZenonT(30)
  <2> QED
    BY <1>8, <2>1, ZenonT(30) DEF ProbeStopLoss, IsGone
<1>9. ASSUME NEW p \in Checks, ProbeTakeProfit(p) PROVE ClearInv'
  <2>1. CASE Idle(p)
    BY <1>9, <2>1, TakeProfitProbed, ZenonT(30) DEF ProbeTakeProfit, Idle
  <2>2. CASE ~Idle(p)
    <3>1. /\ gone'[p] \in SUBSET Legs /\ gone'[p] # {} /\ gone' = [gone EXCEPT ![p] = gone'[p]]
          /\ \A l \in gone'[p] :
                l \in gone[p] \/ (l = "TAKE_PROFIT" /\ IsGone(p, "TAKE_PROFIT"))
          /\ pc' = [pc EXCEPT ![p] = "sibling"] /\ UNCHANGED <<read, known, errors>>
          /\ trouble' = trouble
      BY <1>9, <2>2, TakeProfitProbed, ZenonT(30)
    <3> QED
      BY <1>9, <3>1, ZenonT(30) DEF ProbeTakeProfit, IsGone
  <2> QED
    BY <2>1, <2>2
<1>10. ASSUME NEW p \in Checks, CancelSibling(p) PROVE ClearInv'
  <2>1. CASE DeleteFails(p, Sibling(TriggeredLeg(p)))
    BY <2>1, FailedDeleteIsNoted DEF TriggeredLeg
  <2>2. CASE ~DeleteFails(p, Sibling(TriggeredLeg(p)))
    <3>1. book' = Deleted(p, Sibling(TriggeredLeg(p))) /\ trouble' = trouble
      BY <1>10, <2>2, Zenon DEF CancelSibling
    <3> QED
      BY <1>10, <3>1 DEF CancelSibling, Deleted, TriggeredLeg
  <2> QED
    BY <2>1, <2>2
<1>11. ASSUME NEW p \in Checks, MarkFilled(p) PROVE ClearInv'
  BY <1>11 DEF MarkFilled, Idle, Unmodified, TriggeredLeg
<1>12. ASSUME NEW p \in Checks, MarkFilledRefused(p) PROVE ClearInv'
  BY <1>12, ZenonT(30) DEF MarkFilledRefused, Idle, Unmodified, MetIf
<1>13. ASSUME NEW c \in Cancels, LoadCancel(c) PROVE ClearInv'
  <2>1. trouble' = trouble \/ trouble' = trouble \cup {"overlap"}
    BY <1>13 DEF LoadCancel, Load, MetIf
  <2>2. (\E q \in Calls : Active(q)) => "overlap" \in trouble'
    BY <1>13, ZenonT(30) DEF LoadCancel, Load, MetIf
  <2> QED
    BY <1>13, <2>1, <2>2 DEF LoadCancel, Load
<1>14. ASSUME NEW c \in Cancels, CancelLeg(c) PROVE ClearInv'
  <2>1. CASE DeleteFails(c, pc[c])
    BY <1>14, <2>1, FailedDeleteIsNoted DEF CancelLeg
  <2>2. CASE ~DeleteFails(c, pc[c])
    <3>1. /\ trouble' = trouble
          /\ book' = Deleted(c, pc[c]) \/ (book[pc[c]] # "open" /\ book' = book)
      BY <1>14, <2>2, Zenon DEF CancelLeg
    <3> QED
      BY <1>14, <3>1 DEF CancelLeg, Deleted
  <2> QED
    BY <2>1, <2>2
<1>15. ASSUME NEW c \in Cancels, MarkCancelled(c) PROVE ClearInv'
  BY <1>15 DEF MarkCancelled, Answer, Unmodified
<1>16. ASSUME NEW c \in Cancels, MarkCancelledRefused(c) PROVE ClearInv'
  BY <1>16, ZenonT(30) DEF MarkCancelledRefused, Answer, Unmodified, MetIf
<1>17. ASSUME NEW l \in Legs, Fill(l) PROVE ClearInv'
  BY <1>17, ZenonT(30) DEF Fill
<1>18. CASE UNCHANGED ocoVars
  BY <1>18 DEF ocoVars
<1> QED
  BY <1>1, <1>2, <1>3, <1>4, <1>5, <1>6, <1>7, <1>8, <1>9, <1>10, <1>11, <1>12, <1>13,
     <1>14, <1>15, <1>16, <1>17, <1>18, ZenonT(30)
     DEF OcoNext, CreateStep, CheckStep, CheckGoesOn, CancelStep

\* While calls do not overlap a cancelled offer belongs to an ended order.
LEMMA SoloKept ==
    ASSUME OcoFullInv, [OcoNext]_ocoVars PROVE SoloInv'
<1> USE SiblingOf
        DEF OcoFullInv, OcoInv, Shape, LockInv, OcoShape, Active, Legs, Calls, PCs,
            orderVars, callVars, SoloInv, Ended, TriggeredWasFilled
<1>1. CASE CreateRow
  BY <1>1, ZenonT(30) DEF CreateRow
<1>2. CASE PlaceLegs
  BY <1>2, ZenonT(30) DEF PlaceLegs, MetIf
<1>3. CASE PlaceLegsFails
  BY <1>3, ZenonT(30) DEF PlaceLegsFails, MetIf
<1>4. CASE SaveIds
  BY <1>4, ZenonT(30) DEF SaveIds, SaveCreated
<1>5. CASE CancelCreated
  BY <1>5, ZenonT(30) DEF CancelCreated, SaveCreated
<1>6. CASE SaveFails
  BY <1>6 DEF SaveFails, MetIf
<1>7. ASSUME NEW p \in Checks, LoadCheck(p) PROVE SoloInv'
  <2>1. trouble' = trouble \/ trouble' = trouble \cup {"overlap"}
    BY <1>7 DEF LoadCheck, Load, MetIf
  <2>2. (\E q \in Calls : Active(q)) => "overlap" \in trouble'
    BY <1>7, ZenonT(30) DEF LoadCheck, Load, MetIf
  <2> QED
    BY <1>7, <2>1, <2>2, ZenonT(30) DEF LoadCheck, Load
<1>8. ASSUME NEW p \in Checks, ProbeStopLoss(p) PROVE SoloInv'
  <2>1. /\ gone'[p] \in SUBSET Legs /\ gone' = [gone EXCEPT ![p] = gone'[p]]
        /\ gone'[p] # {} => gone'[p] = {"STOP_LOSS"} /\ IsGone(p, "STOP_LOSS")
        /\ trouble' = trouble
    BY <1>8, StopLossProbed, ZenonT(30)
  <2> QED
    BY <1>8, <2>1 DEF ProbeStopLoss, IsGone
<1>9. ASSUME NEW p \in Checks, ProbeTakeProfit(p) PROVE SoloInv'
  <2>1. CASE Idle(p)
    BY <1>9, <2>1, TakeProfitProbed, ZenonT(30) DEF ProbeTakeProfit, Idle
  <2>2. CASE ~Idle(p)
    <3>1. /\ gone'[p] \in SUBSET Legs /\ gone'[p] # {} /\ gone' = [gone EXCEPT ![p] = gone'[p]]
          /\ \A l \in gone'[p] :
                l \in gone[p] \/ (l = "TAKE_PROFIT" /\ IsGone(p, "TAKE_PROFIT"))
          /\ pc' = [pc EXCEPT ![p] = "sibling"] /\ UNCHANGED <<read, known, errors>>
          /\ trouble' = trouble
      BY <1>9, <2>2, TakeProfitProbed, ZenonT(30)
    <3> QED
      BY <1>9, <3>1 DEF ProbeTakeProfit, IsGone
  <2> QED
    BY <2>1, <2>2, Zenon
<1>10. ASSUME NEW p \in Checks, CancelSibling(p) PROVE SoloInv'
  BY <1>10 DEF CancelSibling, DeleteFails, Deleted, MetIf, TriggeredLeg
<1>11. ASSUME NEW p \in Checks, MarkFilled(p) PROVE SoloInv'
  BY <1>11 DEF MarkFilled, Idle, Unmodified, TriggeredLeg
<1>12. ASSUME NEW p \in Checks, MarkFilledRefused(p) PROVE SoloInv'
  BY <1>12, ZenonT(30) DEF MarkFilledRefused, Idle, Unmodified, MetIf
<1>13. ASSUME NEW c \in Cancels, LoadCancel(c) PROVE SoloInv'
  <2>1. trouble' = trouble \/ trouble' = trouble \cup {"overlap"}
    BY <1>13 DEF LoadCancel, Load, MetIf
  <2>2. (\E q \in Calls : Active(q)) => "overlap" \in trouble'
    BY <1>13, ZenonT(30) DEF LoadCancel, Load, MetIf
  <2> QED
    BY <1>13, <2>1, <2>2, ZenonT(30) DEF LoadCancel, Load
<1>14. ASSUME NEW c \in Cancels, CancelLeg(c) PROVE SoloInv'
  BY <1>14, SMTT(30) DEF CancelLeg, DeleteFails, Deleted, MetIf
<1>15. ASSUME NEW c \in Cancels, MarkCancelled(c) PROVE SoloInv'
  BY <1>15, ZenonT(30) DEF MarkCancelled, Answer, Unmodified
<1>16. ASSUME NEW c \in Cancels, MarkCancelledRefused(c) PROVE SoloInv'
  BY <1>16 DEF MarkCancelledRefused, Answer, Unmodified, MetIf
<1>17. ASSUME NEW l \in Legs, Fill(l) PROVE SoloInv'
  BY <1>17, ZenonT(30) DEF Fill
<1>18. CASE UNCHANGED ocoVars
  BY <1>18 DEF ocoVars
<1> QED
  BY <1>1, <1>2, <1>3, <1>4, <1>5, <1>6, <1>7, <1>8, <1>9, <1>10, <1>11, <1>12, <1>13,
     <1>14, <1>15, <1>16, <1>17, <1>18, ZenonT(30)
     DEF OcoNext, CreateStep, CheckStep, CheckGoesOn, CancelStep

\* OcoFullInv holds throughout.
THEOREM OcoInvariance == OcoSpec => []OcoFullInv
<1>1. OcoFullInv /\ [OcoNext]_ocoVars => OcoFullInv'
  BY OcoNextInv, OcoShapeKept, ClearKept, SoloKept DEF OcoFullInv
<1> QED
  BY <1>1, OcoFullInitially, PTL DEF OcoSpec

\* EndedShowsNothing: while no write failed, an order that has ended has neither
\* offer in the book, for any number of overlapping checks and cancels and
\* whatever probes went unanswered.
THEOREM EndedOrdersShowNothing == OcoSpec => []EndedShowsNothing
<1>1. OcoFullInv => EndedShowsNothing
  BY DEF OcoFullInv, ClearInv, EndedShowsNothing
<1> QED
  BY <1>1, OcoInvariance, PTL

\* ExecutedWasFilled: while calls do not overlap, no statement fails and no delete
\* takes effect without saying so, the leg an order was executed by was filled, not
\* cancelled by the service itself.
THEOREM ExecutedLegsWereFilled == OcoSpec => []ExecutedWasFilled
<1>1. OcoFullInv => ExecutedWasFilled
  BY ZenonT(30) DEF OcoFullInv, SoloInv, ExecutedWasFilled
<1> QED
  BY <1>1, OcoInvariance, PTL

-----------------------------------------------------------------------------
(* The dead-letter queue *)

\* The columns of the trade, the places an actor can be at, and their types.
DlqRow == [status : {"PENDING", "EXECUTING", "CONFIRMED", "SETTLED", "FAILED"},
           hash : {"none", "tx"}, discarded : {"no", "yes"}, deleted : {"no", "yes"}, retries : Nat]

\* Where the actors can be.
DlqPlaces == {"idle", "end", "poll", "check", "ask", "enqueue", "save", "mark", "capture",
              "letter", "discard"}

\* Types of the trade, the copies and the counters.
DlqTypeOK ==
    /\ tradeRow \in DlqRow
    /\ queued \in Nat /\ deadJobs \in Nat /\ enqueued \in Nat
    /\ doing \in [DlqActors -> DlqPlaces]
    /\ copy \in [DlqActors -> DlqRow]
    /\ stale \subseteq DlqActors

\* A copy that is not stale is the row, and no copy is of a deleted row.
CopyInv ==
    \A a \in Holding : copy[a].deleted = "no" /\ (a \notin stale => copy[a] = tradeRow)

\* The retries that have enqueued a job and not yet counted it.
Saving == {a \in Retriers : doing[a] = "save"}

\* A job of the trade is still to run, or its failure is still to be written.
JobLeft == queued > 0 \/ \E a \in FailureHandlers : doing[a] = "mark"

\* Until a stale copy is saved or an actor stops: a trade is archived FAILED, and a
\* retry whose save would still count has its job left, because the failure handler
\* of that job makes its copy stale.
RetryInv ==
    upset = {} =>
        /\ tradeRow.deleted = "yes" => tradeRow.status = "FAILED"
        /\ \A a \in Saving : a \notin stale => JobLeft
        /\ tradeRow.status = "PENDING" /\ tradeRow.retries > 0 => JobLeft

\* The retries counted, and those about to be, are the jobs enqueued.
CountInv == upset = {} => enqueued = tradeRow.retries + Cardinality(Saving)

\* The inductive invariant of the failed trade.
DlqInv == DlqTypeOK /\ CopyInv /\ RetryInv /\ CountInv

\* What a step does to the retries that are counted: nothing, one more is enqueued,
\* or one is saved.
CountStep ==
    \/ /\ Saving' = Saving /\ enqueued' = enqueued
       /\ upset' = {} => upset = {} /\ tradeRow'.retries = tradeRow.retries
    \/ \E a \in Retriers \ Saving :
          /\ Saving' = Saving \cup {a} /\ enqueued' = enqueued + 1
          /\ UNCHANGED <<tradeRow, upset>>
    \/ \E a \in Saving :
          /\ Saving' = Saving \ {a} /\ enqueued' = enqueued
          /\ upset' = {} => upset = {} /\ tradeRow'.retries = tradeRow.retries + 1

\* It holds of a trade whose job has not run.
LEMMA DlqInitially == DlqInit => DlqInv
<1> USE DEF DlqInit, DlqTypeOK, CopyInv, RetryInv, CountInv, DlqRow, DlqPlaces, NoCopy, Holding,
        Saving, DlqActors
<1> SUFFICES ASSUME DlqInit PROVE DlqInv
  OBVIOUS
<1>1. Saving = {} /\ Cardinality({}) = 0
  BY FS_EmptySet
<1>2. tradeRow \in DlqRow /\ tradeRow.retries = 0 /\ tradeRow.deleted = "no"
  OBVIOUS
<1>3. DlqTypeOK
  BY <1>2
<1>4. RetryInv /\ CopyInv
  BY <1>1, <1>2
<1> QED
  BY <1>1, <1>2, <1>3, <1>4 DEF DlqInv

\* Types.
LEMMA DlqTypeKept ==
    ASSUME DlqInv, [DlqNext]_dlqVars PROVE DlqTypeOK'
<1> USE DEF DlqInv, DlqTypeOK, DlqRow, DlqPlaces, NoCopy, Holding, DlqActors
<1>1. CASE TransactionCloses
  BY <1>1 DEF TransactionCloses
<1>2. ASSUME NEW a \in Pollers, StartPolling(a) PROVE DlqTypeOK'
  BY <1>2 DEF StartPolling, NewCall, ReadTrade
<1>3. ASSUME NEW a \in Pollers, PollSettles(a) PROVE DlqTypeOK'
  BY <1>3, ZenonT(30) DEF PollSettles, SaveTrade
<1>4. ASSUME NEW a \in Pollers, PollTimesOut(a) PROVE DlqTypeOK'
  BY <1>4 DEF PollTimesOut, SaveTrade
<1>5. ASSUME NEW a \in Monitors, MonitorReads(a) PROVE DlqTypeOK'
  BY <1>5 DEF MonitorReads, NewCall, ReadTrade
<1>6. ASSUME NEW a \in Monitors, MonitorChecks(a) PROVE DlqTypeOK'
  BY <1>6 DEF MonitorChecks, Leave, SaveTrade
<1>7. ASSUME NEW a \in Retriers, StartRetry(a) PROVE DlqTypeOK'
  BY <1>7 DEF StartRetry, NewCall, ReadTrade
<1>8. ASSUME NEW a \in Retriers, CanRetry(a) PROVE DlqTypeOK'
  BY <1>8 DEF CanRetry, Proceed, Leave
<1>9. ASSUME NEW a \in Retriers, EnqueueRetry(a) PROVE DlqTypeOK'
  BY <1>9 DEF EnqueueRetry, Proceed
<1>10. ASSUME NEW a \in Retriers, SaveRetry(a) PROVE DlqTypeOK'
  <2>1. tradeRow' = [copy[a] EXCEPT !.status = "PENDING", !.retries = @ + 1]
    BY <1>10 DEF SaveRetry, SaveTrade
  <2>2. copy[a] \in DlqRow /\ copy[a].retries + 1 \in Nat
    OBVIOUS
  <2>3. tradeRow' \in DlqRow
    BY <2>1, <2>2, Zenon
  <2> HIDE DEF DlqRow
  <2>4. NoCopy \in DlqRow
    BY DEF DlqRow
  <2> QED
    BY <1>10, <2>3, <2>4 DEF SaveRetry, SaveTrade
<1>11. ASSUME NEW a \in FailureHandlers, JobExhausted(a) PROVE DlqTypeOK'
  BY <1>11 DEF JobExhausted, ReadTrade, Proceed
<1>12. ASSUME NEW a \in FailureHandlers, MarkFailed(a) PROVE DlqTypeOK'
  BY <1>12 DEF MarkFailed, SaveTrade
<1>13. ASSUME NEW a \in FailureHandlers, CaptureLetter(a) PROVE DlqTypeOK'
  BY <1>13 DEF CaptureLetter, Proceed
<1>14. ASSUME NEW a \in FailureHandlers, FailureHandlingFails(a) PROVE DlqTypeOK'
  BY <1>14 DEF FailureHandlingFails, Leave
<1>15. ASSUME NEW a \in Admins, StartDiscard(a) PROVE DlqTypeOK'
  BY <1>15 DEF StartDiscard, NewCall, ReadTrade
<1>16. ASSUME NEW a \in Admins, DiscardLetter(a) PROVE DlqTypeOK'
  BY <1>16 DEF DiscardLetter, Proceed
<1>17. ASSUME NEW a \in Admins, SaveDiscard(a) PROVE DlqTypeOK'
  BY <1>17 DEF SaveDiscard, SaveTrade
<1>18. CASE ArchiveDiscarded
  BY <1>18 DEF ArchiveDiscarded
<1>19. CASE RemoveOldLetter
  BY <1>19 DEF RemoveOldLetter
<1>20. CASE UNCHANGED dlqVars
  BY <1>20 DEF dlqVars
<1> QED
  BY <1>1, <1>2, <1>3, <1>4, <1>5, <1>6, <1>7, <1>8, <1>9, <1>10, <1>11, <1>12, <1>13,
     <1>14, <1>15, <1>16, <1>17, <1>18, <1>19, <1>20, ZenonT(30)
     DEF DlqNext

\* Every write makes the others' copies stale.
LEMMA CopyKept ==
    ASSUME DlqInv, [DlqNext]_dlqVars PROVE CopyInv'
<1> USE DEF DlqInv, DlqTypeOK, CopyInv, DlqRow, DlqPlaces, NoCopy, Holding, DlqActors
<1>1. CASE TransactionCloses
  BY <1>1 DEF TransactionCloses
<1>2. ASSUME NEW a \in Pollers, StartPolling(a) PROVE CopyInv'
  BY <1>2 DEF StartPolling, NewCall, ReadTrade
<1>3. ASSUME NEW a \in Pollers, PollSettles(a) PROVE CopyInv'
  BY <1>3 DEF PollSettles, SaveTrade
<1>4. ASSUME NEW a \in Pollers, PollTimesOut(a) PROVE CopyInv'
  BY <1>4, ZenonT(30) DEF PollTimesOut, SaveTrade
<1>5. ASSUME NEW a \in Monitors, MonitorReads(a) PROVE CopyInv'
  BY <1>5 DEF MonitorReads, NewCall, ReadTrade
<1>6. ASSUME NEW a \in Monitors, MonitorChecks(a) PROVE CopyInv'
  BY <1>6 DEF MonitorChecks, Leave, SaveTrade
<1>7. ASSUME NEW a \in Retriers, StartRetry(a) PROVE CopyInv'
  BY <1>7 DEF StartRetry, NewCall, ReadTrade
<1>8. ASSUME NEW a \in Retriers, CanRetry(a) PROVE CopyInv'
  BY <1>8 DEF CanRetry, Proceed, Leave
<1>9. ASSUME NEW a \in Retriers, EnqueueRetry(a) PROVE CopyInv'
  BY <1>9 DEF EnqueueRetry, Proceed
<1>10. ASSUME NEW a \in Retriers, SaveRetry(a) PROVE CopyInv'
  BY <1>10 DEF SaveRetry, SaveTrade
<1>11. ASSUME NEW a \in FailureHandlers, JobExhausted(a) PROVE CopyInv'
  BY <1>11 DEF JobExhausted, ReadTrade, Proceed
<1>12. ASSUME NEW a \in FailureHandlers, MarkFailed(a) PROVE CopyInv'
  BY <1>12 DEF MarkFailed, SaveTrade
<1>13. ASSUME NEW a \in FailureHandlers, CaptureLetter(a) PROVE CopyInv'
  BY <1>13, ZenonT(30) DEF CaptureLetter, Proceed
<1>14. ASSUME NEW a \in FailureHandlers, FailureHandlingFails(a) PROVE CopyInv'
  BY <1>14 DEF FailureHandlingFails, Leave
<1>15. ASSUME NEW a \in Admins, StartDiscard(a) PROVE CopyInv'
  BY <1>15 DEF StartDiscard, NewCall, ReadTrade
<1>16. ASSUME NEW a \in Admins, DiscardLetter(a) PROVE CopyInv'
  BY <1>16 DEF DiscardLetter, Proceed
<1>17. ASSUME NEW a \in Admins, SaveDiscard(a) PROVE CopyInv'
  BY <1>17 DEF SaveDiscard, SaveTrade
<1>18. CASE ArchiveDiscarded
  BY <1>18 DEF ArchiveDiscarded
<1>19. CASE RemoveOldLetter
  BY <1>19 DEF RemoveOldLetter
<1>20. CASE UNCHANGED dlqVars
  BY <1>20 DEF dlqVars
<1> QED
  BY <1>1, <1>2, <1>3, <1>4, <1>5, <1>6, <1>7, <1>8, <1>9, <1>10, <1>11, <1>12, <1>13,
     <1>14, <1>15, <1>16, <1>17, <1>18, <1>19, <1>20, ZenonT(30)
     DEF DlqNext

\* A retried trade keeps a job.
LEMMA RetryKept ==
    ASSUME DlqInv, [DlqNext]_dlqVars PROVE RetryInv'
<1> USE DEF DlqInv, DlqTypeOK, CopyInv, RetryInv, JobLeft, Saving, DlqRow, DlqPlaces,
            NoCopy, Holding, DlqActors
<1>1. CASE TransactionCloses
  BY <1>1, ZenonT(30) DEF TransactionCloses
<1>2. ASSUME NEW a \in Pollers, StartPolling(a) PROVE RetryInv'
  BY <1>2 DEF StartPolling, NewCall, ReadTrade
<1>3. ASSUME NEW a \in Pollers, PollSettles(a) PROVE RetryInv'
  BY <1>3 DEF PollSettles, SaveTrade
<1>4. ASSUME NEW a \in Pollers, PollTimesOut(a) PROVE RetryInv'
  BY <1>4, ZenonT(30) DEF PollTimesOut, SaveTrade
<1>5. ASSUME NEW a \in Monitors, MonitorReads(a) PROVE RetryInv'
  BY <1>5 DEF MonitorReads, NewCall, ReadTrade
<1>6. ASSUME NEW a \in Monitors, MonitorChecks(a) PROVE RetryInv'
  BY <1>6 DEF MonitorChecks, Leave, SaveTrade
<1>7. ASSUME NEW a \in Retriers, StartRetry(a) PROVE RetryInv'
  BY <1>7, ZenonT(30) DEF StartRetry, NewCall, ReadTrade
<1>8. ASSUME NEW a \in Retriers, CanRetry(a) PROVE RetryInv'
  BY <1>8 DEF CanRetry, Proceed, Leave
<1>9. ASSUME NEW a \in Retriers, EnqueueRetry(a) PROVE RetryInv'
  BY <1>9 DEF EnqueueRetry, Proceed
<1>10. ASSUME NEW a \in Retriers, SaveRetry(a) PROVE RetryInv'
  BY <1>10, ZenonT(30) DEF SaveRetry, SaveTrade
<1>11. ASSUME NEW a \in FailureHandlers, JobExhausted(a) PROVE RetryInv'
  BY <1>11 DEF JobExhausted, ReadTrade, Proceed
<1>12. ASSUME NEW a \in FailureHandlers, MarkFailed(a) PROVE RetryInv'
  BY <1>12 DEF MarkFailed, SaveTrade
<1>13. ASSUME NEW a \in FailureHandlers, CaptureLetter(a) PROVE RetryInv'
  BY <1>13 DEF CaptureLetter, Proceed
<1>14. ASSUME NEW a \in FailureHandlers, FailureHandlingFails(a) PROVE RetryInv'
  BY <1>14, Zenon DEF FailureHandlingFails, Leave
<1>15. ASSUME NEW a \in Admins, StartDiscard(a) PROVE RetryInv'
  BY <1>15 DEF StartDiscard, NewCall, ReadTrade
<1>16. ASSUME NEW a \in Admins, DiscardLetter(a) PROVE RetryInv'
  BY <1>16 DEF DiscardLetter, Proceed
<1>17. ASSUME NEW a \in Admins, SaveDiscard(a) PROVE RetryInv'
  <2>1. /\ tradeRow'.retries = copy[a].retries /\ tradeRow'.status = copy[a].status
        /\ tradeRow'.deleted = "no"
    BY <1>17 DEF SaveDiscard, SaveTrade
  <2>2. Saving' = Saving /\ (JobLeft => JobLeft')
    BY <1>17 DEF SaveDiscard, SaveTrade
  <2>3. upset' = {} => upset = {} /\ copy[a] = tradeRow
    BY <1>17, ZenonT(30) DEF SaveDiscard, SaveTrade
  <2>4. \A b \in Saving' : b \in stale'
    BY <1>17 DEF SaveDiscard, SaveTrade
  <2> HIDE DEF JobLeft, Saving
  <2> QED
    BY <1>17, <2>1, <2>2, <2>3, <2>4
<1>18. CASE ArchiveDiscarded
  BY <1>18 DEF ArchiveDiscarded
<1>19. CASE RemoveOldLetter
  BY <1>19, ZenonT(30) DEF RemoveOldLetter
<1>20. CASE UNCHANGED dlqVars
  BY <1>20 DEF dlqVars
<1> QED
  BY <1>1, <1>2, <1>3, <1>4, <1>5, <1>6, <1>7, <1>8, <1>9, <1>10, <1>11, <1>12, <1>13,
     <1>14, <1>15, <1>16, <1>17, <1>18, <1>19, <1>20, ZenonT(30)
     DEF DlqNext

\* Every step is one of the three kinds.
LEMMA CountsStep ==
    ASSUME DlqInv, [DlqNext]_dlqVars PROVE CountStep
<1> USE DEF DlqInv, DlqTypeOK, CopyInv, CountStep, Saving, DlqRow, DlqPlaces, NoCopy,
            Holding, DlqActors
<1>1. CASE TransactionCloses
  BY <1>1, ZenonT(30) DEF TransactionCloses
<1>2. ASSUME NEW a \in Pollers, StartPolling(a) PROVE CountStep
  BY <1>2 DEF StartPolling, NewCall, ReadTrade
<1>3. ASSUME NEW a \in Pollers, PollSettles(a) PROVE CountStep
  BY <1>3, ZenonT(30) DEF PollSettles, SaveTrade
<1>4. ASSUME NEW a \in Pollers, PollTimesOut(a) PROVE CountStep
  BY <1>4, ZenonT(30) DEF PollTimesOut, SaveTrade
<1>5. ASSUME NEW a \in Monitors, MonitorReads(a) PROVE CountStep
  BY <1>5 DEF MonitorReads, NewCall, ReadTrade
<1>6. ASSUME NEW a \in Monitors, MonitorChecks(a) PROVE CountStep
  <2>1. CASE Leave(a, "idle") /\ UNCHANGED <<tradeRow, upset>>
    BY <1>6, <2>1 DEF MonitorChecks, Leave
  <2>2. CASE SaveTrade(a, [copy[a] EXCEPT !.status = IF chain = "success" THEN "SETTLED"
                                                                            ELSE "FAILED"], "idle")
    <3>1. tradeRow'.retries = copy[a].retries /\ Saving' = Saving
      BY <1>6, <2>2 DEF MonitorChecks, SaveTrade
    <3>2. upset' = {} => upset = {} /\ copy[a] = tradeRow
      BY <1>6, <2>2, Zenon DEF MonitorChecks, SaveTrade
    <3> QED
      BY <1>6, <3>1, <3>2 DEF MonitorChecks
  <2> QED
    BY <1>6, <2>1, <2>2 DEF MonitorChecks
<1>7. ASSUME NEW a \in Retriers, StartRetry(a) PROVE CountStep
  BY <1>7, ZenonT(30) DEF StartRetry, NewCall, ReadTrade
<1>8. ASSUME NEW a \in Retriers, CanRetry(a) PROVE CountStep
  BY <1>8 DEF CanRetry, Proceed, Leave
<1>9. ASSUME NEW a \in Retriers, EnqueueRetry(a) PROVE CountStep
  BY <1>9 DEF EnqueueRetry, Proceed
<1>10. ASSUME NEW a \in Retriers, SaveRetry(a) PROVE CountStep
  <2>1. tradeRow'.retries = copy[a].retries + 1 /\ a \in Saving /\ Saving' = Saving \ {a}
    BY <1>10 DEF SaveRetry, SaveTrade
  <2>2. upset' = {} => upset = {} /\ copy[a] = tradeRow
    BY <1>10, ZenonT(30) DEF SaveRetry, SaveTrade
  <2> QED
    BY <1>10, <2>1, <2>2 DEF SaveRetry
<1>11. ASSUME NEW a \in FailureHandlers, JobExhausted(a) PROVE CountStep
  BY <1>11 DEF JobExhausted, ReadTrade, Proceed
<1>12. ASSUME NEW a \in FailureHandlers, MarkFailed(a) PROVE CountStep
  BY <1>12, ZenonT(30) DEF MarkFailed, SaveTrade
<1>13. ASSUME NEW a \in FailureHandlers, CaptureLetter(a) PROVE CountStep
  BY <1>13 DEF CaptureLetter, Proceed
<1>14. ASSUME NEW a \in FailureHandlers, FailureHandlingFails(a) PROVE CountStep
  BY <1>14, ZenonT(30) DEF FailureHandlingFails, Leave
<1>15. ASSUME NEW a \in Admins, StartDiscard(a) PROVE CountStep
  BY <1>15, ZenonT(30) DEF StartDiscard, NewCall, ReadTrade
<1>16. ASSUME NEW a \in Admins, DiscardLetter(a) PROVE CountStep
  BY <1>16 DEF DiscardLetter, Proceed
<1>17. ASSUME NEW a \in Admins, SaveDiscard(a) PROVE CountStep
  <2>1. tradeRow'.retries = copy[a].retries /\ Saving' = Saving
    BY <1>17 DEF SaveDiscard, SaveTrade
  <2>2. upset' = {} => upset = {} /\ copy[a] = tradeRow
    BY <1>17, Zenon DEF SaveDiscard, SaveTrade
  <2> QED
    BY <1>17, <2>1, <2>2 DEF SaveDiscard
<1>18. CASE ArchiveDiscarded
  BY <1>18, ZenonT(30) DEF ArchiveDiscarded
<1>19. CASE RemoveOldLetter
  BY <1>19, ZenonT(30) DEF RemoveOldLetter
<1>20. CASE UNCHANGED dlqVars
  BY <1>20 DEF dlqVars
<1> QED
  BY <1>1, <1>2, <1>3, <1>4, <1>5, <1>6, <1>7, <1>8, <1>9, <1>10, <1>11, <1>12, <1>13,
     <1>14, <1>15, <1>16, <1>17, <1>18, <1>19, <1>20, ZenonT(30)
     DEF DlqNext

\* Counting.
LEMMA CountKept ==
    ASSUME DlqInv, CountStep, DlqTypeOK' PROVE CountInv'
<1>1. IsFiniteSet(Saving) /\ Cardinality(Saving) \in Nat
  BY DlqAssumption, FS_Subset, FS_CardinalityType DEF Saving
<1>2. enqueued \in Nat /\ tradeRow.retries \in Nat /\ tradeRow'.retries \in Nat
  BY DEF DlqInv, DlqTypeOK, DlqRow
<1> USE DEF DlqInv, CountInv
<1>3. CASE /\ Saving' = Saving /\ enqueued' = enqueued
           /\ upset' = {} => upset = {} /\ tradeRow'.retries = tradeRow.retries
  BY <1>3
<1>4. ASSUME NEW a \in Retriers \ Saving, Saving' = Saving \cup {a}, enqueued' = enqueued + 1,
             UNCHANGED <<tradeRow, upset>>
      PROVE  CountInv'
  <2>1. Cardinality(Saving') = Cardinality(Saving) + 1
    BY <1>1, <1>4, FS_AddElement
  <2> QED
    BY <1>1, <1>2, <1>4, <2>1
<1>5. ASSUME NEW a \in Saving, Saving' = Saving \ {a}, enqueued' = enqueued,
             upset' = {} => upset = {} /\ tradeRow'.retries = tradeRow.retries + 1
      PROVE  CountInv'
  <2>1. Cardinality(Saving') = Cardinality(Saving) - 1
    BY <1>1, <1>5, FS_RemoveElement
  <2> QED
    BY <1>1, <1>2, <1>5, <2>1
<1> QED
  BY <1>3, <1>4, <1>5, ZenonT(30) DEF CountStep

\* DlqInv holds throughout.
LEMMA DlqInvariance == DlqSpec => []DlqInv
<1>1. DlqInv /\ [DlqNext]_dlqVars => DlqInv'
  BY DlqTypeKept, CopyKept, RetryKept, CountsStep, CountKept DEF DlqInv
<1> QED
  BY <1>1, DlqInitially, PTL DEF DlqSpec

\* RetriesAreCounted: until a stale copy is saved or an actor stops, retryCount
\* and the retries under way add up to the jobs enqueued, for any number of
\* concurrent retries.
THEOREM RetriesAreInHistory == DlqSpec => []RetriesAreCounted
<1>1. DlqInv => RetriesAreCounted
  BY DEF DlqInv, CountInv, RetriesAreCounted, Saving
<1> QED
  BY <1>1, DlqInvariance, PTL

\* RetriedHasJob: under the same premise a trade that a retry made PENDING has a
\* job left in the queue.
THEOREM RetriedTradesHaveJobs == DlqSpec => []RetriedHasJob
<1>1. DlqInv => RetriedHasJob
  BY DEF DlqInv, RetryInv, RetriedHasJob, JobLeft
<1> QED
  BY <1>1, DlqInvariance, PTL
=============================================================================
