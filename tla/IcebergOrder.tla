------------------------------ MODULE IcebergOrder ------------------------------
(***************************************************************************)
(* IcebergOrderService for ONE order: createOrder, checkAndRefill and      *)
(* cancelOrder running concurrently against the order's row and the        *)
(* Stellar order book.                                                     *)
(*                                                                         *)
(* Offers are numbered in the order they are placed.  The book fills an    *)
(* offer at once or not at all; a filled and a cancelled offer look the    *)
(* same to the service (Horizon answers 404).  AdvancedOrder.version is a  *)
(* VersionColumn: repository.save bumps it without looking at it, and      *)
(* updateWithVersionCheck does both.                                       *)
(***************************************************************************)
EXTENDS Integers, FiniteSets, FiniteSetsExt

CONSTANTS TotalAmount, DisplayAmount,  \* of the order
          Checks,     \* concurrent callers of checkAndRefill
          Cancels,    \* cancelOrder requests
          MaxOffers,  \* bound on the offers placed
          MaxVersion, \* bound on the version at which a check may start
          Faults      \* subset of {"horizon", "timeout", "lostId", "db"}

\* validateIcebergSizes
ASSUME SizesAssumption ==
    /\ TotalAmount \in Nat /\ DisplayAmount \in Nat
    /\ 0 < DisplayAmount /\ DisplayAmount < TotalAmount
ASSUME BoundsAssumption == MaxOffers \in Nat \ {0} /\ MaxVersion \in Nat /\ Checks \cap Cancels = {}

NoOffer == 0
Offers == 1..MaxOffers

VARIABLES status, version,      \* columns of the order's row
          filled, displayed,    \* filledAmount, currentDisplayedAmount
          active,               \* activeOfferId
          book, size,           \* state and amount of each offer on chain
          creator,              \* where createOrder is
          made,                 \* the offer createOrder placed, as it knows it
          pc,                   \* where the other calls are
          read, copy,           \* the version and the icebergData each loaded
          next,                 \* the offer each placed
          trouble               \* kinds of trouble met so far: two checks at once,
                                \* a submission timed out, a statement failed

orderVars == <<status, version, filled, displayed, active>>
chainVars == <<book, size>>
callVars == <<pc, read, copy, next>>
icebergVars == <<orderVars, chainVars, creator, made, callVars, trouble>>

Statuses == {"none", "ACTIVE", "PARTIALLY_FILLED", "FILLED", "CANCELLED"}
Calls == Checks \cup Cancels
Data == [filled |-> filled, displayed |-> displayed, active |-> active]
NoData == [filled |-> 0, displayed |-> 0, active |-> NoOffer]
PCs == {"idle", "probe", "refill", "update", "error", "cancel", "mark", "done"}

IcebergTypeOK ==
    /\ status \in Statuses /\ version \in Nat
    /\ filled \in 0..TotalAmount /\ displayed \in 0..DisplayAmount
    /\ active \in Offers \cup {NoOffer}
    /\ book \in [Offers -> {"none", "open", "filled", "cancelled"}]
    /\ size \in [Offers -> 0..DisplayAmount]
    /\ creator \in {"start", "place", "save", "fail", "done"}
    /\ made \in Offers \cup {NoOffer}
    /\ pc \in [Calls -> PCs]
    /\ read \in [Calls -> Nat]
    /\ copy \in [Calls -> [filled : 0..TotalAmount, displayed : 0..DisplayAmount,
                           active : Offers \cup {NoOffer}]]
    /\ next \in [Calls -> Offers \cup {NoOffer}]
    /\ trouble \subseteq {"overlap", "timeout", "db"}

IcebergInit ==
    /\ status = "none" /\ version = 0 /\ filled = 0 /\ displayed = 0 /\ active = NoOffer
    /\ book = [o \in Offers |-> "none"]
    /\ size = [o \in Offers |-> 0]
    /\ creator = "start" /\ made = NoOffer
    /\ pc = [p \in Calls |-> "idle"]
    /\ read = [p \in Calls |-> 0] /\ copy = [p \in Calls |-> NoData]
    /\ next = [p \in Calls |-> NoOffer]
    /\ trouble = {}

Met(kind) == trouble' = trouble \cup {kind}

-----------------------------------------------------------------------------
(* The order book *)

Fresh == {o \in Offers : book[o] = "none"}
NextOffer == Min(Fresh)

\* placeSlice: manageSellOffer with a new offer id.
PlaceSlice(amount) ==
    /\ Fresh # {}
    /\ book' = [book EXCEPT ![NextOffer] = "open"]
    /\ size' = [size EXCEPT ![NextOffer] = amount]

\* extractFirstOfferId returns '' when the response has no offer id.
ReportedId(id) == id = NextOffer \/ ("lostId" \in Faults /\ id = NoOffer)

Fill(o) ==
    /\ book[o] = "open"
    /\ book' = [book EXCEPT ![o] = "filled"]
    /\ UNCHANGED <<orderVars, size, creator, made, callVars, trouble>>

-----------------------------------------------------------------------------
(* createOrder *)

CreateRow ==
    /\ creator = "start"
    /\ status' = "ACTIVE" /\ version' = 1
    /\ displayed' = DisplayAmount
    /\ creator' = "place"
    /\ UNCHANGED <<filled, active, chainVars, made, callVars, trouble>>

PlaceFirst ==
    /\ creator = "place"
    /\ PlaceSlice(DisplayAmount)
    /\ \E id \in Offers \cup {NoOffer} : ReportedId(id) /\ made' = id
    /\ creator' = "save"
    /\ UNCHANGED <<orderVars, callVars, trouble>>

\* The keypair, the account or the submission fails.
PlaceFirstFails ==
    /\ "horizon" \in Faults
    /\ creator = "place"
    /\ creator' = "fail"
    /\ UNCHANGED <<orderVars, chainVars, made, callVars, trouble>>

\* The submission times out although the network took it.
PlaceFirstTimesOut ==
    /\ "timeout" \in Faults
    /\ creator = "place"
    /\ Met("timeout")
    /\ PlaceSlice(DisplayAmount)
    /\ creator' = "fail"
    /\ UNCHANGED <<orderVars, made, callVars>>

\* repo.save(saved): the row becomes what createOrder holds.
SaveCreated(s) ==
    /\ status' = s /\ version' = version + 1
    /\ filled' = 0 /\ displayed' = DisplayAmount /\ active' = made
    /\ creator' = "done"
    /\ UNCHANGED <<chainVars, made, callVars, trouble>>

SaveFirst == creator = "save" /\ SaveCreated("ACTIVE")

SaveFirstFails ==
    /\ "db" \in Faults
    /\ creator = "save"
    /\ Met("db")
    /\ creator' = "fail"
    /\ UNCHANGED <<orderVars, chainVars, made, callVars>>

\* The catch block.
CancelCreated == creator = "fail" /\ SaveCreated("CANCELLED")

\* The save of the catch block fails too.
CancelCreatedFails ==
    /\ "db" \in Faults
    /\ creator = "fail"
    /\ Met("db")
    /\ creator' = "done"
    /\ UNCHANGED <<orderVars, chainVars, made, callVars>>

-----------------------------------------------------------------------------
(* checkAndRefill *)

\* The call returns.
Idle(p) ==
    /\ pc' = [pc EXCEPT ![p] = "idle"]
    /\ read' = [read EXCEPT ![p] = 0]
    /\ copy' = [copy EXCEPT ![p] = NoData]
    /\ next' = [next EXCEPT ![p] = NoOffer]

\* findOne; any status but ACTIVE returns at once.
LoadCheck(p) ==
    /\ p \in Checks /\ pc[p] = "idle"
    /\ status = "ACTIVE" /\ version < MaxVersion
    /\ IF \E q \in Checks : pc[q] # "idle" THEN Met("overlap") ELSE UNCHANGED trouble
    /\ read' = [read EXCEPT ![p] = version]
    /\ copy' = [copy EXCEPT ![p] = Data]
    /\ pc' = [pc EXCEPT ![p] = "probe"]
    /\ UNCHANGED <<orderVars, chainVars, creator, made, next>>

IsOfferFilled(o) == o # NoOffer /\ book[o] # "open"

FilledAmount(p) == copy[p].filled + copy[p].displayed
RemainingAmount(p) == TotalAmount - FilledAmount(p)

\* Mutant: a full slice is shown at the end too.
NextSliceFull(p) == DisplayAmount

NextSliceAmount(p) == IF DisplayAmount < RemainingAmount(p) THEN DisplayAmount ELSE RemainingAmount(p)

\* Mutant: the offer is taken for filled when Horizon does not answer.
ProbeOptimistic(p) ==
    /\ pc[p] = "probe"
    /\ copy[p].active # NoOffer
    /\ pc' = [pc EXCEPT ![p] = IF RemainingAmount(p) <= 0 THEN "update" ELSE "refill"]
    /\ UNCHANGED <<orderVars, chainVars, creator, made, read, copy, next, trouble>>

\* The slice is gone: on to the last update, or to the next slice.
Probe(p) ==
    /\ pc[p] = "probe"
    /\ IsOfferFilled(copy[p].active)
    /\ pc' = [pc EXCEPT ![p] = IF RemainingAmount(p) <= 0 THEN "update" ELSE "refill"]
    /\ UNCHANGED <<orderVars, chainVars, creator, made, read, copy, next, trouble>>

\* The offer is open, has no id, or Horizon fails: return.
ProbeOpen(p) ==
    /\ pc[p] = "probe"
    /\ ~IsOfferFilled(copy[p].active) \/ "horizon" \in Faults
    /\ Idle(p)
    /\ UNCHANGED <<orderVars, chainVars, creator, made, trouble>>

PlaceNext(p) ==
    /\ pc[p] = "refill"
    /\ PlaceSlice(NextSliceAmount(p))
    /\ \E id \in Offers \cup {NoOffer} :
          ReportedId(id) /\ next' = [next EXCEPT ![p] = id]
    /\ pc' = [pc EXCEPT ![p] = "update"]
    /\ UNCHANGED <<orderVars, creator, made, read, copy, trouble>>

PlaceNextFails(p) ==
    /\ "horizon" \in Faults
    /\ pc[p] = "refill"
    /\ pc' = [pc EXCEPT ![p] = "error"]
    /\ UNCHANGED <<orderVars, chainVars, creator, made, read, copy, next, trouble>>

PlaceNextTimesOut(p) ==
    /\ "timeout" \in Faults
    /\ pc[p] = "refill"
    /\ Met("timeout")
    /\ PlaceSlice(NextSliceAmount(p))
    /\ pc' = [pc EXCEPT ![p] = "error"]
    /\ UNCHANGED <<orderVars, creator, made, read, copy, next>>

Unmodified(p) == version = read[p]

\* updateWithVersionCheck: FILLED when nothing remains, else PARTIALLY_FILLED
\* with the new slice.
UpdateOrder(p) ==
    /\ pc[p] = "update"
    /\ Unmodified(p)
    /\ version' = version + 1
    /\ IF RemainingAmount(p) <= 0
          THEN status' = "FILLED" /\ filled' = TotalAmount /\ displayed' = 0 /\ active' = active
          ELSE /\ status' = "PARTIALLY_FILLED"
               /\ filled' = FilledAmount(p)
               /\ displayed' = NextSliceAmount(p)
               /\ active' = next[p]
    /\ Idle(p)
    /\ UNCHANGED <<chainVars, creator, made, trouble>>

\* OptimisticLockException: "skipping refill update".
UpdateConflict(p) ==
    /\ pc[p] = "update"
    /\ ~Unmodified(p)
    /\ Idle(p)
    /\ UNCHANGED <<orderVars, chainVars, creator, made, trouble>>

\* Any other error of the update: the one that marks the order FILLED is thrown on
\* as it is, the other one reaches the catch block after the slice was placed.
UpdateFails(p) ==
    /\ "db" \in Faults
    /\ pc[p] = "update"
    /\ Met("db")
    /\ IF RemainingAmount(p) <= 0
          THEN Idle(p)
          ELSE pc' = [pc EXCEPT ![p] = "error"] /\ UNCHANGED <<read, copy, next>>
    /\ UNCHANGED <<orderVars, chainVars, creator, made>>

\* The catch block stores the message, under the version check; it may fail.
StoreError(p) ==
    /\ pc[p] = "error"
    /\ \/ version' = (IF Unmodified(p) THEN version + 1 ELSE version) /\ UNCHANGED trouble
       \/ "db" \in Faults /\ version' = version /\ Met("db")
    /\ Idle(p)
    /\ UNCHANGED <<status, filled, displayed, active, chainVars, creator, made>>

-----------------------------------------------------------------------------
(* cancelOrder *)

LoadCancel(c) ==
    /\ c \in Cancels /\ pc[c] = "idle"
    /\ status \in {"ACTIVE", "PARTIALLY_FILLED"}
    /\ read' = [read EXCEPT ![c] = version]
    /\ copy' = [copy EXCEPT ![c] = Data]
    /\ pc' = [pc EXCEPT ![c] = "cancel"]
    /\ UNCHANGED <<orderVars, chainVars, creator, made, next, trouble>>

\* cancelOffer, best effort: an offer that is gone makes it throw, and the
\* warning is all that follows.
CancelOffer(c) ==
    /\ pc[c] = "cancel"
    /\ LET o == copy[c].active
       IN  book' = IF o # NoOffer /\ book[o] = "open"
                      THEN [book EXCEPT ![o] = "cancelled"] ELSE book
    /\ pc' = [pc EXCEPT ![c] = "mark"]
    /\ UNCHANGED <<orderVars, size, creator, made, read, copy, next, trouble>>

CancelOfferFails(c) ==
    /\ "horizon" \in Faults
    /\ pc[c] = "cancel"
    /\ pc' = [pc EXCEPT ![c] = "mark"]
    /\ UNCHANGED <<orderVars, chainVars, creator, made, read, copy, next, trouble>>

Answer(c) ==
    /\ pc' = [pc EXCEPT ![c] = "done"]
    /\ read' = [read EXCEPT ![c] = 0]
    /\ copy' = [copy EXCEPT ![c] = NoData]

MarkCancelled(c) ==
    /\ pc[c] = "mark"
    /\ Unmodified(c)
    /\ status' = "CANCELLED" /\ version' = version + 1
    /\ Answer(c)
    /\ UNCHANGED <<filled, displayed, active, chainVars, creator, made, next, trouble>>

\* A conflict, or the update fails: an error answer.
MarkRefused(c) ==
    /\ pc[c] = "mark"
    /\ \/ ~Unmodified(c) /\ UNCHANGED trouble
       \/ "db" \in Faults /\ Met("db")
    /\ Answer(c)
    /\ UNCHANGED <<orderVars, chainVars, creator, made, next>>

CreateStep ==
    \/ CreateRow \/ PlaceFirst \/ PlaceFirstFails \/ PlaceFirstTimesOut
    \/ SaveFirst \/ SaveFirstFails \/ CancelCreated \/ CancelCreatedFails

CheckStep(p) ==
    \/ LoadCheck(p) \/ Probe(p) \/ ProbeOpen(p) \/ PlaceNext(p) \/ PlaceNextFails(p)
    \/ PlaceNextTimesOut(p) \/ UpdateOrder(p) \/ UpdateConflict(p) \/ UpdateFails(p) \/ StoreError(p)

CancelStep(c) ==
    LoadCancel(c) \/ CancelOffer(c) \/ CancelOfferFails(c) \/ MarkCancelled(c) \/ MarkRefused(c)

IcebergNext ==
    \/ CreateStep
    \/ \E p \in Checks : CheckStep(p)
    \/ \E c \in Cancels : CancelStep(c)
    \/ \E o \in Offers : Fill(o)

IcebergSpec == IcebergInit /\ [][IcebergNext]_icebergVars

\* Creation runs to its end, checkAndRefill is called again and again, and the
\* market takes every offer in the end.
IcebergFairSpec ==
    /\ IcebergSpec
    /\ WF_icebergVars(CreateStep)
    /\ \A p \in Checks : WF_icebergVars(CheckStep(p))
    /\ \A o \in Offers : WF_icebergVars(Fill(o))

-----------------------------------------------------------------------------
(* Properties *)

AmountOf(S) == MapThenSumSet(LAMBDA o : size[o], S)
Open == {o \in Offers : book[o] = "open"}
Sold == {o \in Offers : book[o] = "filled"}

Ended == {"FILLED", "CANCELLED"}

\* Once creation is over, an order that was cancelled or filled stays so: no
\* late check revives it and no late cancel overwrites it.
EndedIsFinal ==
    [][(status \in Ended /\ creator = "done") => status' = status]_icebergVars

\* As long as no two checks overlapped, no submission timed out and no statement
\* failed, what was sold and what is on offer never exceed totalAmount (the
\* arithmetic of checkAndRefill), whatever cancels do.
SoldWithinTotal == trouble = {} => AmountOf(Open \cup Sold) <= TotalAmount

\* Under the same premise the order "only exposes displayAmount at a time": never
\* two slices in the book, even when Horizon answers with errors or without an id.
OneSliceShown == trouble = {} => \A o, q \in Open : o = q

\* "post a new slice until the full order is complete" (checkAndRefill).
FullyExecuted == <>(AmountOf(Sold) = TotalAmount)
=============================================================================
