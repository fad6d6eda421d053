-------------------------- MODULE IcebergOrderProofs ---------------------------
(***************************************************************************)
(* Proofs about IcebergOrder, for every size of the order, any number of   *)
(* concurrent checks and cancels, and any set of faults.                   *)
(***************************************************************************)
EXTENDS IcebergOrder, TLAPS

-----------------------------------------------------------------------------
(* The version as an optimistic lock *)

\* The version as an optimistic lock: a call in flight that would still pass
\* the check of updateWithVersionCheck loaded the row as it is now, and it
\* loaded an order that had not ended.
CopyInv ==
    /\ \A p \in Calls : pc[p] \notin {"idle", "done"} =>
          /\ read[p] <= version
          /\ read[p] = version => status \in {"ACTIVE", "PARTIALLY_FILLED"}
    /\ creator = "start" => version = 0 /\ status = "none"

\* Domains and types of what the invariant speaks of.
Shape ==
    /\ version \in Nat
    /\ pc \in [Calls -> PCs]
    /\ read \in [Calls -> Nat]

\* The inductive invariant behind EndedIsFinal.
IcebergInv == Shape /\ CopyInv

\* It holds before createOrder.
LEMMA IcebergInitInv == IcebergInit => IcebergInv
BY DEF IcebergInit, IcebergInv, Shape, CopyInv, PCs

\* Creation writes the row without the check and bumps the version: every
\* call in flight is outdated by it.
LEMMA CreateInv == ASSUME IcebergInv, CreateStep PROVE IcebergInv'
<1> USE DEF IcebergInv, Shape, CopyInv, PCs, callVars
<1>1. CASE CreateRow
  BY <1>1 DEF CreateRow
<1>2. CASE PlaceFirst \/ PlaceFirstFails \/ PlaceFirstTimesOut
  BY <1>2 DEF PlaceFirst, PlaceFirstFails, PlaceFirstTimesOut, orderVars
<1>3. CASE SaveFirst
  BY <1>3 DEF SaveFirst, SaveCreated
<1>4. CASE CancelCreated
  BY <1>4 DEF CancelCreated, SaveCreated
<1>5. CASE SaveFirstFails \/ CancelCreatedFails
  BY <1>5 DEF SaveFirstFails, CancelCreatedFails, orderVars
<1> QED
  BY <1>1, <1>2, <1>3, <1>4, <1>5 DEF CreateStep

\* Steps of a check keep it.
LEMMA CheckInv == ASSUME NEW p \in Checks, IcebergInv, CheckStep(p) PROVE IcebergInv'
<1> USE DEF IcebergInv, Shape, CopyInv, PCs
<1>0. p \in Calls
  BY DEF Calls
<1>1. CASE LoadCheck(p)
  BY <1>0, <1>1 DEF LoadCheck, orderVars
<1>2. CASE Probe(p)
  BY <1>0, <1>2 DEF Probe, orderVars
<1>3. CASE ProbeOpen(p)
  BY <1>0, <1>3 DEF ProbeOpen, orderVars, Idle
<1>4. CASE PlaceNext(p) \/ PlaceNextFails(p) \/ PlaceNextTimesOut(p)
  BY <1>0, <1>4 DEF PlaceNext, PlaceNextFails, PlaceNextTimesOut, orderVars
<1>5. CASE UpdateOrder(p)
  BY <1>0, <1>5 DEF UpdateOrder, Unmodified, Idle
<1>6. CASE UpdateConflict(p)
  BY <1>0, <1>6 DEF UpdateConflict, orderVars, Idle
<1>7. CASE UpdateFails(p)
  BY <1>0, <1>7 DEF UpdateFails, orderVars, Idle
<1>8. CASE StoreError(p)
  BY <1>0, <1>8 DEF StoreError, Unmodified, Idle
<1> QED
  BY <1>1, <1>2, <1>3, <1>4, <1>5, <1>6, <1>7, <1>8 DEF CheckStep

\* Steps of a cancel keep it.
LEMMA CancelInv == ASSUME NEW c \in Cancels, IcebergInv, CancelStep(c) PROVE IcebergInv'
<1> USE DEF IcebergInv, Shape, CopyInv, PCs
<1>0. c \in Calls
  BY DEF Calls
<1>1. CASE LoadCancel(c)
  BY <1>0, <1>1 DEF LoadCancel, orderVars
<1>2. CASE CancelOffer(c) \/ CancelOfferFails(c)
  BY <1>0, <1>2 DEF CancelOffer, CancelOfferFails, orderVars
<1>3. CASE MarkCancelled(c)
  BY <1>0, <1>3 DEF MarkCancelled, Unmodified, Answer
<1>4. CASE MarkRefused(c)
  BY <1>0, <1>4 DEF MarkRefused, orderVars, Answer
<1> QED
  BY <1>1, <1>2, <1>3, <1>4 DEF CancelStep

\* Every step keeps it.
LEMMA IcebergNextInv == IcebergInv /\ [IcebergNext]_icebergVars => IcebergInv'
<1> SUFFICES ASSUME IcebergInv, [IcebergNext]_icebergVars PROVE IcebergInv'
  OBVIOUS
<1>1. CASE CreateStep
  BY <1>1, CreateInv
<1>2. ASSUME NEW p \in Checks, CheckStep(p) PROVE IcebergInv'
  BY <1>2, CheckInv
<1>3. ASSUME NEW c \in Cancels, CancelStep(c) PROVE IcebergInv'
  BY <1>3, CancelInv
<1>4. ASSUME NEW o \in Offers, Fill(o) PROVE IcebergInv'
  BY <1>4 DEF Fill, IcebergInv, Shape, CopyInv, orderVars, callVars
<1>5. CASE UNCHANGED icebergVars
  BY <1>5 DEF icebergVars, IcebergInv, Shape, CopyInv, orderVars, callVars
<1> QED
  BY <1>1, <1>2, <1>3, <1>4, <1>5 DEF IcebergNext

\* The version discipline of checkAndRefill, cancelOrder and createOrder.
THEOREM IcebergVersionLocks == IcebergSpec => []IcebergInv
BY IcebergInitInv, IcebergNextInv, PTL DEF IcebergSpec

\* No step changes an order that has ended.
LEMMA IcebergEndedStep ==
    ASSUME IcebergInv, [IcebergNext]_icebergVars, status \in Ended, creator = "done"
    PROVE  status' = status
<1> USE DEF Ended
<1>1. CASE CreateStep
  BY <1>1 DEF CreateStep, CreateRow, PlaceFirst, PlaceFirstFails, PlaceFirstTimesOut,
     SaveFirst, SaveFirstFails, CancelCreated, CancelCreatedFails
<1>2. ASSUME NEW p \in Checks, CheckStep(p) PROVE status' = status
  <2>1. ~UpdateOrder(p)
    BY DEF UpdateOrder, Unmodified, IcebergInv, CopyInv, Calls
  <2> QED
    BY <1>2, <2>1 DEF CheckStep, LoadCheck, Probe, ProbeOpen, PlaceNext, PlaceNextFails,
       PlaceNextTimesOut, UpdateConflict, UpdateFails, StoreError, orderVars
<1>3. ASSUME NEW c \in Cancels, CancelStep(c) PROVE status' = status
  <2>1. ~MarkCancelled(c)
    BY DEF MarkCancelled, Unmodified, IcebergInv, CopyInv, Calls
  <2> QED
    BY <1>3, <2>1 DEF CancelStep, LoadCancel, CancelOffer, CancelOfferFails, MarkRefused, orderVars
<1>4. ASSUME NEW o \in Offers, Fill(o) PROVE status' = status
  BY <1>4 DEF Fill, orderVars
<1>5. CASE UNCHANGED icebergVars
  BY <1>5 DEF icebergVars, orderVars
<1> QED
  BY <1>1, <1>2, <1>3, <1>4, <1>5 DEF IcebergNext

\* EndedIsFinal: a cancelled or filled order keeps its status, however many
\* checks and cancels run and whatever fails.
THEOREM EndedStaysEnded == IcebergSpec => EndedIsFinal
<1>1. IcebergInv /\ [IcebergNext]_icebergVars =>
        [(status \in Ended /\ creator = "done") => status' = status]_icebergVars
  BY IcebergEndedStep
<1> QED
  BY <1>1, IcebergVersionLocks, PTL DEF IcebergSpec, EndedIsFinal

-----------------------------------------------------------------------------
(* One slice at a time *)

\* The functions of the calls and of the book have the right domains.
SliceShape ==
    /\ DOMAIN book = Offers
    /\ pc \in [Calls -> PCs]
    /\ DOMAIN read = Calls /\ DOMAIN copy = Calls /\ DOMAIN next = Calls

\* Offer o is the only one that may be open.
Known(o) == \A q \in Open : o = q

\* createOrder: nothing is on offer before it places the first slice, and
\* until it saves the row, no id is in it.
CreationInv ==
    /\ creator \in {"start", "place", "fail"} => Open = {} /\ made = NoOffer
    /\ creator = "save" /\ made # NoOffer => Known(made)
    /\ creator # "done" => active = NoOffer

\* One check at a time; it goes past its probe only for the slice the row still
\* names, with nothing in the book, and the row it read changes only by a cancel.
CheckingInv ==
    /\ \A p, q \in Checks : pc[p] # "idle" /\ pc[q] # "idle" => p = q
    /\ \A p \in Checks : pc[p] # "idle" =>
          /\ pc[p] \in {"probe", "refill", "update", "error"}
          /\ copy[p].active = NoOffer => pc[p] = "probe"
          /\ copy[p].active # NoOffer =>
                /\ creator = "done" /\ copy[p].active = active
                /\ version # read[p] => status # "ACTIVE"
                /\ pc[p] = "probe" => Known(active)
                /\ pc[p] \in {"refill", "error"} => Open = {}

\* While the order can be checked again, what is on offer is what the row names.
ShownInv ==
    /\ \A o, q \in Open : o = q
    /\ status = "ACTIVE" /\ active # NoOffer =>
          Known(active) \/ \E p \in Checks : pc[p] = "update"

\* The inductive invariant behind OneSliceShown.
SliceInv == SliceShape /\ (trouble = {} => CreationInv /\ CheckingInv /\ ShownInv)

\* Its part that holds as long as no trouble was met.
SlicesApart == CreationInv /\ CheckingInv /\ ShownInv

\* Trouble once met is not forgotten.
LEMMA TroubleGrows == ASSUME [IcebergNext]_icebergVars PROVE trouble \subseteq trouble'
<1>1. CASE CreateStep
  BY <1>1 DEF CreateStep, CreateRow, PlaceFirst, PlaceFirstFails, PlaceFirstTimesOut, SaveFirst,
     SaveFirstFails, CancelCreated, CancelCreatedFails, SaveCreated, Met
<1>2. ASSUME NEW p \in Checks, CheckStep(p) PROVE trouble \subseteq trouble'
  BY <1>2 DEF CheckStep, LoadCheck, Probe, ProbeOpen, PlaceNext, PlaceNextFails,
     PlaceNextTimesOut, UpdateOrder, UpdateConflict, UpdateFails, StoreError, Met
<1>3. ASSUME NEW c \in Cancels, CancelStep(c) PROVE trouble \subseteq trouble'
  BY <1>3 DEF CancelStep, LoadCancel, CancelOffer, CancelOfferFails, MarkCancelled, MarkRefused, Met
<1> QED
  BY <1>1, <1>2, <1>3 DEF IcebergNext, Fill, icebergVars

\* Domains.
LEMMA SliceShapeKept == SliceShape /\ [IcebergNext]_icebergVars => SliceShape'
<1> SUFFICES ASSUME SliceShape, [IcebergNext]_icebergVars PROVE SliceShape'
  OBVIOUS
<1> USE DEF SliceShape, PCs
<1>1. CASE CreateStep
  BY <1>1 DEF CreateStep, CreateRow, PlaceFirst, PlaceFirstFails, PlaceFirstTimesOut, SaveFirst,
     SaveFirstFails, CancelCreated, CancelCreatedFails, SaveCreated, PlaceSlice, chainVars, callVars
<1>2. ASSUME NEW p \in Checks, CheckStep(p) PROVE SliceShape'
  <2>0. p \in Calls
    BY DEF Calls
  <2>1. CASE PlaceNext(p) \/ PlaceNextFails(p) \/ PlaceNextTimesOut(p)
    BY <2>0, <2>1 DEF PlaceNext, PlaceNextFails, PlaceNextTimesOut, PlaceSlice, chainVars
  <2>2. CASE LoadCheck(p) \/ Probe(p) \/ ProbeOpen(p)
    BY <2>0, <2>2 DEF LoadCheck, Probe, ProbeOpen, Idle, chainVars
  <2>3. CASE UpdateOrder(p) \/ UpdateConflict(p) \/ UpdateFails(p) \/ StoreError(p)
    BY <2>0, <2>3 DEF UpdateOrder, UpdateConflict, UpdateFails, StoreError, Idle, chainVars
  <2> QED
    BY <1>2, <2>1, <2>2, <2>3 DEF CheckStep
<1>3. ASSUME NEW c \in Cancels, CancelStep(c) PROVE SliceShape'
  BY <1>3 DEF CancelStep, LoadCancel, CancelOffer, CancelOfferFails, MarkCancelled, MarkRefused,
     Answer, chainVars, Calls
<1>4. ASSUME NEW o \in Offers, Fill(o) PROVE SliceShape'
  BY <1>4 DEF Fill, callVars
<1>5. CASE UNCHANGED icebergVars
  BY <1>5 DEF icebergVars, chainVars, callVars
<1> QED
  BY <1>1, <1>2, <1>3, <1>4, <1>5 DEF IcebergNext

\* A slice placed on an empty book is alone in it.
LEMMA PlacedAlone ==
    ASSUME NEW amount, SliceShape, Open = {}, PlaceSlice(amount)
    PROVE  \A q \in Open' : q = NextOffer
BY ZenonT(30) DEF SliceShape, PlaceSlice, Open

\* createOrder places the first slice on an empty book.
LEMMA CreateSlices ==
    ASSUME SliceShape, SlicesApart, CreateStep, trouble' = {} PROVE SlicesApart'
<1> USE DEF SlicesApart, CreationInv, CheckingInv, ShownInv, Known, orderVars, callVars
<1>1. CASE CreateRow
  BY <1>1 DEF CreateRow, Open, chainVars
<1>2. CASE PlaceFirst
  <2>1. Open = {}
    BY <1>2 DEF PlaceFirst
  <2>2. \A q \in Open' : q = NextOffer
    BY <1>2, <2>1, PlacedAlone DEF PlaceFirst
  <2> HIDE DEF Known
  <2>3. \A p \in Checks : copy[p].active # NoOffer => pc[p] = "idle"
    BY <1>2 DEF PlaceFirst
  <2>4. made' # NoOffer => made' = NextOffer
    BY <1>2 DEF PlaceFirst, ReportedId
  <2> QED
    BY <1>2, <2>2, <2>3, <2>4 DEF PlaceFirst, Known
<1>3. CASE PlaceFirstFails
  BY <1>3 DEF PlaceFirstFails, Open, chainVars
<1>4. CASE SaveFirst
  BY <1>4 DEF SaveFirst, SaveCreated, Open, chainVars
<1>5. CASE CancelCreated
  BY <1>5 DEF CancelCreated, SaveCreated, Open, chainVars
<1>6. ~PlaceFirstTimesOut /\ ~SaveFirstFails /\ ~CancelCreatedFails
  BY DEF PlaceFirstTimesOut, SaveFirstFails, CancelCreatedFails, Met
<1> QED
  BY <1>1, <1>2, <1>3, <1>4, <1>5, <1>6, ZenonT(30) DEF CreateStep

\* A check places the next slice only after the last one has gone.
LEMMA CheckSlices ==
    ASSUME NEW p \in Checks, SliceShape, SlicesApart, CheckStep(p), trouble' = {}
    PROVE  SlicesApart'
<1> USE DEF SlicesApart, CreationInv, CheckingInv, ShownInv, Known, orderVars, SliceShape
<1>0. p \in Calls /\ \A q \in Checks : q \in Calls
  BY DEF Calls
<1>1. CASE LoadCheck(p)
  <2>1. \A q \in Checks : pc[q] = "idle"
    BY <1>1 DEF LoadCheck, Met
  <2>2. active # NoOffer => Known(active) /\ creator = "done"
    BY <1>1, <2>1 DEF LoadCheck
  <2>3. copy'[p].active = active /\ read'[p] = version /\ pc'[p] = "probe"
    BY <1>0, <1>1 DEF LoadCheck, Data
  <2>4. \A q \in Checks \ {p} : pc'[q] = "idle"
    BY <1>0, <1>1, <2>1 DEF LoadCheck
  <2>5. Open' = Open /\ UNCHANGED <<orderVars, creator, made>>
    BY <1>1 DEF LoadCheck, chainVars, Open
  <2> QED
    BY <2>1, <2>2, <2>3, <2>4, <2>5
<1>2. CASE Probe(p)
  <2>1. copy[p].active # NoOffer /\ Open = {}
    BY <1>0, <1>2 DEF Probe, IsOfferFilled, Open
  <2>2. pc'[p] \in {"update", "refill"} /\ \A q \in Checks \ {p} : pc'[q] = pc[q]
    BY <1>0, <1>2 DEF Probe
  <2>3. Open' = {}
    BY <1>2, <2>1, ZenonT(30) DEF Probe, chainVars, Open
  <2> QED
    BY <1>2, <2>1, <2>2, <2>3 DEF Probe
<1>3. CASE ProbeOpen(p) \/ UpdateConflict(p)
  <2>1. Open' = Open /\ UNCHANGED <<orderVars, creator, made>>
    BY <1>3 DEF ProbeOpen, UpdateConflict, chainVars, Open
  <2>2. pc'[p] = "idle" /\ \A q \in Checks \ {p} : pc'[q] = pc[q] /\ pc'[q] = "idle"
    BY <1>0, <1>3 DEF ProbeOpen, UpdateConflict, Idle
  <2>3. UpdateConflict(p) => status # "ACTIVE"
    BY <1>0 DEF UpdateConflict, Unmodified
  <2>4. ProbeOpen(p) => pc[p] = "probe"
    BY DEF ProbeOpen
  <2> QED
    BY <1>3, <2>1, <2>2, <2>3, <2>4
<1>4. CASE PlaceNext(p)
  <2>1. Open = {} /\ copy[p].active # NoOffer
    BY <1>4 DEF PlaceNext
  <2>2. \A q \in Open' : q = NextOffer
    BY <1>4, <2>1, PlacedAlone, ZenonT(30) DEF PlaceNext
  <2>3. pc'[p] = "update" /\ \A q \in Checks \ {p} : pc'[q] = pc[q] /\ pc'[q] = "idle"
    BY <1>0, <1>4 DEF PlaceNext
  <2> QED
    BY <1>4, <2>1, <2>2, <2>3 DEF PlaceNext
<1>5. CASE PlaceNextFails(p)
  <2>1. pc'[p] = "error" /\ \A q \in Checks \ {p} : pc'[q] = pc[q] /\ pc'[q] = "idle"
    BY <1>0, <1>5 DEF PlaceNextFails
  <2>2. Open = {} /\ Open' = {}
    BY <1>5 DEF PlaceNextFails, chainVars, Open
  <2> QED
    BY <1>5, <2>1, <2>2 DEF PlaceNextFails
<1>6. CASE UpdateOrder(p)
  <2>1. pc'[p] = "idle" /\ \A q \in Checks \ {p} : pc'[q] = "idle"
    BY <1>0, <1>6 DEF UpdateOrder, Idle
  <2>2. Open' = Open /\ UNCHANGED <<creator, made>> /\ creator = "done" /\ status' # "ACTIVE"
    BY <1>6 DEF UpdateOrder, chainVars, Open
  <2> QED
    BY <2>1, <2>2
<1>7. CASE StoreError(p)
  <2>1. pc'[p] = "idle" /\ \A q \in Checks \ {p} : pc'[q] = "idle"
    BY <1>0, <1>7 DEF StoreError, Idle
  <2>2. Open = {} /\ Open' = {} /\ UNCHANGED <<creator, made, active>>
    BY <1>7 DEF StoreError, chainVars, Open
  <2> QED
    BY <2>1, <2>2
<1>8. ~PlaceNextTimesOut(p) /\ ~UpdateFails(p)
  BY DEF PlaceNextTimesOut, UpdateFails, Met
<1> QED
  BY <1>1, <1>2, <1>3, <1>4, <1>5, <1>6, <1>7, <1>8, Zenon DEF CheckStep

\* Cancels and fills only take slices out of the book, and leave the checks and
\* creation alone; a cancel that writes the row ends the order.
LEMMA OtherSlices ==
    ASSUME SliceShape, SlicesApart,
           \/ \E c \in Cancels : CancelStep(c)
           \/ \E o \in Offers : Fill(o)
           \/ UNCHANGED icebergVars
    PROVE  SlicesApart'
<1>1. Open' \subseteq Open
  BY DEF SliceShape, Open, CancelStep, LoadCancel, CancelOffer, CancelOfferFails, MarkCancelled,
     MarkRefused, Fill, icebergVars, chainVars
<1>2. UNCHANGED <<creator, made, active>>
  BY DEF CancelStep, LoadCancel, CancelOffer, CancelOfferFails, MarkCancelled,
     MarkRefused, Fill, icebergVars, orderVars
<1>3. ASSUME NEW p \in Checks
      PROVE  pc'[p] = pc[p] /\ copy'[p] = copy[p] /\ read'[p] = read[p]
  <2>1. p \in Calls /\ p \notin Cancels
    BY BoundsAssumption DEF Calls
  <2> QED
    BY <2>1 DEF SliceShape, CancelStep, LoadCancel, CancelOffer, CancelOfferFails, MarkCancelled,
     MarkRefused, Answer, Fill, icebergVars, callVars
<1>4. (version' = version /\ status' = status) \/ status' # "ACTIVE"
  BY DEF CancelStep, LoadCancel, CancelOffer, CancelOfferFails, MarkCancelled,
     MarkRefused, Fill, icebergVars, orderVars
<1> QED
  BY <1>1, <1>2, <1>3, <1>4 DEF SlicesApart, CreationInv, CheckingInv, ShownInv, Known

\* SliceInv holds throughout.
LEMMA SliceInvariance == IcebergSpec => []SliceInv
<1>1. IcebergInit => SliceInv
  BY DEF IcebergInit, SliceInv, SliceShape, CreationInv, CheckingInv, ShownInv, Known, Open,
     Calls, PCs
<1>2. SliceInv /\ [IcebergNext]_icebergVars => SliceInv'
  <2> SUFFICES ASSUME SliceInv, [IcebergNext]_icebergVars, trouble' = {} PROVE SlicesApart'
    BY SliceShapeKept DEF SliceInv, SlicesApart
  <2>1. SliceShape /\ SlicesApart
    BY TroubleGrows DEF SliceInv, SlicesApart
  <2> QED
    BY <2>1, CreateSlices, CheckSlices, OtherSlices DEF IcebergNext
<1> QED
  BY <1>1, <1>2, PTL DEF IcebergSpec

\* OneSliceShown: without overlapping checks, timeouts and failed statements
\* at most one slice of an iceberg order is in the book, for every size of the
\* order, any number of checks and cancels, and whatever Horizon answers.
THEOREM SlicesAreShownSingly == IcebergSpec => []OneSliceShown
<1>1. SliceInv => OneSliceShown
  BY DEF SliceInv, ShownInv, OneSliceShown
<1> QED
  BY <1>1, SliceInvariance, PTL

-----------------------------------------------------------------------------
(* Within the total *)

\* The offers ever placed: none, one of a full slice, or two within the total.
Placed == {o \in Offers : book[o] # "none"}

\* At most one offer was placed, of a full slice.
OnePlaced == \A o, q \in Placed : o = q /\ size[o] <= DisplayAmount

\* Two offers were placed at most, within the total.
WithinTotal ==
    \/ OnePlaced
    \/ \E a, b \in Offers : a # b /\ Placed \subseteq {a, b} /\ size[a] + size[b] <= TotalAmount

\* Until the row is updated it says what createOrder wrote, so the one refill that a
\* check can place before the row leaves ACTIVE is of what remains.
AmountInv ==
    /\ status = "ACTIVE" => filled = 0 /\ displayed = DisplayAmount
    /\ creator = "start" => filled = 0
    /\ creator \in {"start", "place", "fail"} => Placed = {}
    /\ creator = "save" => OnePlaced
    /\ \A p \in Checks : pc[p] # "idle" =>
          /\ copy[p].filled = 0 /\ copy[p].displayed = DisplayAmount
          /\ copy[p].active # NoOffer /\ pc[p] # "update" => OnePlaced
    /\ status = "ACTIVE" /\ active # NoOffer => OnePlaced \/ \E p \in Checks : pc[p] = "update"
    /\ WithinTotal

\* The inductive invariant behind SoldWithinTotal.
Amounts == trouble = {} => size \in [Offers -> Nat] /\ AmountInv

\* The sum over subsets of two offers.
Sum2(a, b, s) == (IF a \in s THEN size[a] ELSE 0) + (IF b \in s /\ b # a THEN size[b] ELSE 0)

\* What AmountOf computes for one offer or two.
LEMMA PairSum ==
    ASSUME NEW a, NEW b, size[a] \in Nat, size[b] \in Nat
    PROVE  AmountOf({a, b}) = Sum2(a, b, {a, b})
<1> DEFINE S == {a, b}
           F(g) == [s \in SUBSET S |-> IF s = {} THEN 0 ELSE size[CHOOSE x \in s : TRUE] + g[s \ {CHOOSE x \in s : TRUE}]]
           W == [s \in SUBSET S |-> Sum2(a, b, s)]
<1>1. AmountOf(S) = (CHOOSE g : g = F(g))[S]
  BY DEF AmountOf, MapThenSumSet, MapThenFoldSet
<1>2. \A s \in SUBSET S : s # {} => (CHOOSE x \in s : TRUE) \in s
  OBVIOUS
<1>3. ASSUME NEW s \in SUBSET S PROVE W[s] = F(W)[s]
  <2>1. CASE s = {}
    BY <2>1 DEF Sum2
  <2>2. CASE s # {}
    <3>1. PICK y \in s : y = (CHOOSE x \in s : TRUE)
      BY <1>2, <2>2
    <3>2. y \in S /\ s \ {y} \in SUBSET S
      OBVIOUS
    <3>3. F(W)[s] = size[y] + Sum2(a, b, s \ {y})
      BY <2>2, <3>1, <3>2
    <3>4. size[y] + Sum2(a, b, s \ {y}) = Sum2(a, b, s)
      BY <3>2 DEF Sum2
    <3> QED
      BY <3>3, <3>4
  <2> QED
    BY <2>1, <2>2
<1>4. W = F(W)
  BY <1>3, Zenon
<1> HIDE DEF F
<1>5. \E g : g = F(g)
  <2> HIDE DEF W
  <2> QED BY <1>4
<1>6. PICK g : g = F(g) /\ g = (CHOOSE h : h = F(h))
  BY <1>5
<1> USE DEF F
<1>7. g[{}] = 0
  BY <1>6
<1>8. ASSUME NEW y \in S PROVE g[{y}] = size[y]
  <2>1. (CHOOSE x \in {y} : TRUE) = y
    OBVIOUS
  <2>2. {y} \in SUBSET S /\ {y} \ {y} = {}
    OBVIOUS
  <2>3. F(g)[{y}] = size[y] + g[{}]
    BY <2>1, <2>2, Zenon
  <2> QED
    BY <2>3, <1>6, <1>7
<1>9. g[S] = Sum2(a, b, S)
  <2>1. PICK y \in S : y = (CHOOSE x \in S : TRUE)
    BY <1>2
  <2>2. F(g)[S] = size[y] + g[S \ {y}]
    BY <2>1
  <2>3. CASE a = b
    BY <2>1, <2>2, <2>3, <1>6, <1>7 DEF Sum2
  <2>4. CASE a # b
    <3>1. S \ {a} = {b} /\ S \ {b} = {a}
      BY <2>4
    <3> QED
    <4>1. CASE y = a
      BY <4>1, <2>2, <3>1, <1>6, <1>8, <2>4, Zenon DEF Sum2
    <4>2. CASE y = b
      <5>1. g[S] = size[b] + size[a]
        BY <4>2, <2>2, <3>1, <1>6, <1>8, Zenon
      <5> QED
        BY <5>1, <2>4 DEF Sum2
    <4> QED BY <2>1, <4>1, <4>2
  <2> QED
    BY <2>3, <2>4
<1> QED
  BY <1>1, <1>6, <1>9, Zenon

\* Nothing: the sum of no slices.
LEMMA NoSum == AmountOf({}) = 0
<1> DEFINE F(g) == [s \in SUBSET {} |-> IF s = {} THEN 0 ELSE size[CHOOSE x \in s : TRUE] + g[s \ {CHOOSE x \in s : TRUE}]]
           W == [s \in SUBSET {} |-> 0]
<1>1. AmountOf({}) = (CHOOSE g : g = F(g))[{}]
  BY DEF AmountOf, MapThenSumSet, MapThenFoldSet
<1>2. W = F(W)
  OBVIOUS
<1> HIDE DEF F
<1>3. \E g : g = F(g)
  <2> HIDE DEF W
  <2> QED
    BY <1>2
<1>4. PICK g : g = F(g) /\ g = (CHOOSE h : h = F(h))
  BY <1>3
<1>5. g[{}] = 0
  BY <1>4 DEF F
<1> QED
  BY <1>1, <1>4, <1>5

\* Offers placed within the total are sold within it.
LEMMA TotalIsEnough ==
    ASSUME size \in [Offers -> Nat], WithinTotal
    PROVE  AmountOf(Open \cup Sold) <= TotalAmount
<1> DEFINE S == Open \cup Sold
<1>1. S \subseteq Placed /\ Placed \subseteq Offers
  BY DEF Open, Sold, Placed
<1>2. \A o \in Offers : size[o] \in Nat
  OBVIOUS
<1> SUFFICES AmountOf(S) <= TotalAmount
  OBVIOUS
<1> HIDE DEF S
<1>3. ASSUME NEW a \in Offers, size[a] <= TotalAmount, S = {a} PROVE AmountOf(S) <= TotalAmount
  <2>1. AmountOf({a, a}) = size[a]
    BY <1>2, PairSum DEF Sum2
  <2> QED
    BY <1>3, <2>1
<1>4. CASE S = {}
  BY <1>4, NoSum, SizesAssumption
<1>5. CASE OnePlaced /\ S # {}
  <2>1. PICK a \in S : S = {a}
    BY <1>1, <1>5 DEF OnePlaced
  <2>2. a \in Offers /\ size[a] <= TotalAmount
    BY <1>1, <1>2, <1>5, SizesAssumption DEF OnePlaced
  <2> QED
    BY <1>3, <2>1, <2>2
<1>6. ASSUME NEW a \in Offers, NEW b \in Offers, a # b, Placed \subseteq {a, b},
             size[a] + size[b] <= TotalAmount
      PROVE  AmountOf(S) <= TotalAmount
  <2>1. S = {} \/ S = {a} \/ S = {b} \/ S = {a, b}
    BY <1>1, <1>6
  <2>2. size[a] <= TotalAmount /\ size[b] <= TotalAmount
    BY <1>2, <1>6, SizesAssumption
  <2>3. AmountOf({a, b}) = size[a] + size[b]
    BY <1>2, <1>6, PairSum DEF Sum2
  <2> QED
    BY <1>3, <1>4, <1>6, <2>1, <2>2, <2>3, Zenon
<1> QED
  BY <1>4, <1>5, <1>6 DEF WithinTotal

\* A slice that is placed when no slice, or one, has been placed.
LEMMA PlacedFirst ==
    ASSUME SliceShape, size \in [Offers -> Nat], Placed = {}, PlaceSlice(DisplayAmount)
    PROVE  OnePlaced' /\ size' \in [Offers -> Nat]
<1> DEFINE n == NextOffer
<1> HIDE DEF n
<1>1. size' = [size EXCEPT ![n] = DisplayAmount] /\ book' = [book EXCEPT ![n] = "open"]
  BY DEF PlaceSlice, n
<1>2. size' \in [Offers -> Nat]
  BY <1>1, SizesAssumption, Zenon
<1>3. Placed' \subseteq {n} \cap Offers
  BY <1>1 DEF Placed, SliceShape
<1>4. n \in Offers => size'[n] = DisplayAmount
  BY <1>1
<1> QED
  BY <1>2, <1>3, <1>4, SizesAssumption DEF OnePlaced

\* The second slice is of what the first one left.
LEMMA PlacedNext ==
    ASSUME SliceShape, size \in [Offers -> Nat], OnePlaced,
           NEW amount \in Nat, amount <= DisplayAmount, amount <= TotalAmount - DisplayAmount,
           PlaceSlice(amount)
    PROVE  WithinTotal' /\ size' \in [Offers -> Nat]
<1> DEFINE n == NextOffer
<1> HIDE DEF n
<1>1. size' = [size EXCEPT ![n] = amount] /\ book' = [book EXCEPT ![n] = "open"]
  BY DEF PlaceSlice, n
<1>2. size' \in [Offers -> Nat]
  BY <1>1, Zenon
<1>3. Placed' \subseteq Placed \cup {n} /\ Placed \subseteq Offers /\ Placed' \subseteq Offers
  BY <1>1 DEF Placed, SliceShape
<1>4. \A o \in Offers \ {n} : size'[o] = size[o] /\ size[o] \in Nat
  BY <1>1
<1>5. n \in Offers => size'[n] = amount
  BY <1>1
<1>6. CASE \A o \in Placed : o = n
  <2>1. OnePlaced'
    BY <1>3, <1>5, <1>6 DEF OnePlaced
  <2> QED
    BY <1>2, <2>1 DEF WithinTotal
<1>7. CASE n \notin Offers
  <2>1. OnePlaced'
    BY <1>3, <1>4, <1>7 DEF OnePlaced
  <2> QED
    BY <1>2, <2>1 DEF WithinTotal
<1>8. ASSUME NEW a \in Placed, a # n, n \in Offers PROVE WithinTotal'
  <2>1. Placed' \subseteq {a, n} /\ a \in Offers /\ size[a] <= DisplayAmount
    BY <1>3, <1>8 DEF OnePlaced
  <2>2. size'[a] = size[a] /\ size[a] \in Nat /\ size'[n] = amount
    BY <1>4, <1>5, <1>8, <2>1
  <2>3. size'[a] + size'[n] <= TotalAmount
    BY <2>1, <2>2, SizesAssumption
  <2> QED
    BY <1>8, <2>1, <2>3 DEF WithinTotal
<1> QED
  BY <1>2, <1>6, <1>7, <1>8

\* createOrder.
LEMMA CreateAmounts ==
    ASSUME SliceShape, SlicesApart, size \in [Offers -> Nat], AmountInv, CreateStep, trouble' = {}
    PROVE  AmountInv' /\ size' \in [Offers -> Nat]
<1> USE DEF AmountInv, orderVars, callVars, chainVars
<1>0. creator # "done" => \A p \in Checks : pc[p] # "idle" => copy[p].active = NoOffer
  BY DEF SlicesApart, CheckingInv
<1>1. CASE CreateRow
  BY <1>0, <1>1, Zenon DEF CreateRow, Placed, OnePlaced, WithinTotal, SlicesApart, CreationInv
<1>2. CASE PlaceFirst
  <2>1. OnePlaced' /\ size' \in [Offers -> Nat]
    BY <1>2, PlacedFirst DEF PlaceFirst
  <2>2. /\ UNCHANGED <<status, filled, displayed, active, pc, copy>>
        /\ creator = "place" /\ creator' = "save"
    BY <1>2, ZenonT(30) DEF PlaceFirst
  <2> QED
    BY <1>0, <2>1, <2>2 DEF WithinTotal
<1>3. CASE PlaceFirstFails
  BY <1>0, <1>3, ZenonT(30) DEF PlaceFirstFails, Placed, OnePlaced, WithinTotal
<1>4. CASE SaveFirst
  <2>1. OnePlaced /\ (OnePlaced' <=> OnePlaced)
    BY <1>4 DEF SaveFirst, SaveCreated, Placed, OnePlaced
  <2> QED
    BY <1>4, <2>1 DEF SaveFirst, SaveCreated, WithinTotal
<1>5. CASE CancelCreated
  <2>1. Placed' = {}
    BY <1>5 DEF CancelCreated, SaveCreated, Placed
  <2>2. OnePlaced'
    BY <2>1 DEF OnePlaced
  <2> QED
    BY <1>5, <2>1, <2>2 DEF CancelCreated, SaveCreated, WithinTotal
<1>6. ~PlaceFirstTimesOut /\ ~SaveFirstFails /\ ~CancelCreatedFails
  BY DEF PlaceFirstTimesOut, SaveFirstFails, CancelCreatedFails, Met
<1> QED
  BY <1>1, <1>2, <1>3, <1>4, <1>5, <1>6, ZenonT(30) DEF CreateStep

\* An open offer that is filled or cancelled stays one of those placed.
LEMMA StillPlaced ==
    ASSUME DOMAIN book = Offers, NEW o, NEW s,
           book[o] = "open", s # "none", book' = [book EXCEPT ![o] = s]
    PROVE  Placed' = Placed
BY DEF Placed

\* A step that leaves the offers' amounts alone.
LEMMA SameBook ==
    ASSUME Placed' = Placed, size' = size
    PROVE  (OnePlaced' <=> OnePlaced) /\ (WithinTotal' <=> WithinTotal)
BY DEF OnePlaced, WithinTotal

\* checkAndRefill.
LEMMA CheckAmounts ==
    ASSUME NEW p \in Checks, SliceShape, SlicesApart, size \in [Offers -> Nat], AmountInv,
           CheckStep(p), trouble' = {}
    PROVE  AmountInv' /\ size' \in [Offers -> Nat]
<1> USE DEF AmountInv, orderVars, SliceShape
<1>0. p \in Calls /\ \A q \in Checks : q \in Calls
  BY DEF Calls
<1>a. pc[p] # "idle" => \A q \in Checks \ {p} : pc[q] = "idle"
  BY ZenonT(30) DEF SlicesApart, CheckingInv
<1>b. pc[p] \in {"refill", "update", "error"} => creator = "done" /\ copy[p].active # NoOffer
  BY DEF SlicesApart, CheckingInv
<1>1. CASE LoadCheck(p)
  <2>1. \A q \in Checks : pc[q] = "idle"
    BY <1>1 DEF LoadCheck, Met
  <2>2. copy'[p] = Data /\ pc'[p] = "probe" /\ \A q \in Checks \ {p} : pc'[q] = "idle"
    BY <1>0, <1>1, <2>1 DEF LoadCheck
  <2>3. Placed' = Placed /\ size' = size
    BY <1>1, ZenonT(30) DEF LoadCheck, chainVars, Placed
  <2>4. Data.filled = filled /\ Data.displayed = displayed /\ Data.active = active
    BY DEF Data
  <2>5. UNCHANGED <<status, filled, displayed, active, creator>> /\ status = "ACTIVE"
    BY <1>1, ZenonT(30) DEF LoadCheck
  <2> HIDE DEF SliceShape
  <2> QED
    BY <2>1, <2>2, <2>3, <2>4, <2>5, SameBook, ZenonT(30)
<1>2. CASE Probe(p)
  <2>1. RemainingAmount(p) > 0
    BY <1>2, SizesAssumption, SMTT(30) DEF Probe, RemainingAmount, FilledAmount
  <2>2. pc'[p] = "refill" /\ pc[p] = "probe" /\ copy[p].active # NoOffer
    BY <1>0, <1>2, <2>1, SizesAssumption DEF Probe, RemainingAmount, FilledAmount, IsOfferFilled
  <2>3. \A q \in Checks \ {p} : pc'[q] = "idle"
    BY <1>0, <1>2, <1>a DEF Probe
  <2>4. Placed' = Placed /\ size' = size /\ UNCHANGED <<status, filled, displayed, active, creator, copy>>
    BY <1>2, ZenonT(30) DEF Probe, chainVars, Placed
  <2> HIDE DEF SliceShape
  <2> QED
    BY <2>2, <2>3, <2>4, SameBook, ZenonT(30)
<1>3. CASE ProbeOpen(p) \/ UpdateConflict(p)
  <2>1. Placed' = Placed /\ size' = size /\ UNCHANGED <<status, filled, displayed, active, creator>>
    BY <1>3, ZenonT(30) DEF ProbeOpen, UpdateConflict, chainVars, Placed
  <2>2. \A q \in Checks : pc'[q] = "idle"
    BY <1>0, <1>3, <1>a DEF ProbeOpen, UpdateConflict, Idle
  <2>3. UpdateConflict(p) => status # "ACTIVE"
    BY <1>0, ZenonT(30) DEF UpdateConflict, Unmodified, SlicesApart, CheckingInv
  <2>4. ProbeOpen(p) => pc[p] = "probe"
    BY ZenonT(30) DEF ProbeOpen
  <2>5. ProbeOpen(p) => \A q \in Checks : pc[q] # "update"
    BY <2>4, <1>a, ZenonT(30)
  <2> HIDE DEF SliceShape
  <2> QED
    BY <1>3, <2>1, <2>2, <2>3, <2>5, SameBook, ZenonT(30)
<1>4. CASE PlaceNext(p)
  <2>1. pc[p] = "refill" /\ OnePlaced
    BY <1>4, <1>b, ZenonT(30) DEF PlaceNext
  <2>2. /\ NextSliceAmount(p) \in Nat /\ NextSliceAmount(p) <= DisplayAmount
        /\ NextSliceAmount(p) <= TotalAmount - DisplayAmount
    BY <2>1, SizesAssumption DEF NextSliceAmount, RemainingAmount, FilledAmount
  <2>3. WithinTotal' /\ size' \in [Offers -> Nat]
    BY <1>4, <2>1, <2>2, PlacedNext, ZenonT(30) DEF PlaceNext
  <2>4. pc'[p] = "update" /\ \A q \in Checks \ {p} : pc'[q] = "idle"
    BY <1>0, <1>4, <2>1, <1>a, ZenonT(30) DEF PlaceNext
  <2>5. UNCHANGED <<status, filled, displayed, active, creator, copy>> /\ creator = "done"
    BY <1>4, <1>b DEF PlaceNext
  <2> HIDE DEF SliceShape
  <2> QED
    BY <2>1, <2>3, <2>4, <2>5, ZenonT(30)
<1>5. CASE PlaceNextFails(p)
  <2>1. pc'[p] = "error" /\ pc[p] = "refill" /\ \A q \in Checks \ {p} : pc'[q] = "idle"
    BY <1>0, <1>5, <1>a DEF PlaceNextFails
  <2>2. Placed' = Placed /\ size' = size /\ UNCHANGED <<status, filled, displayed, active, creator, copy>>
    BY <1>5, ZenonT(30) DEF PlaceNextFails, chainVars, Placed
  <2> HIDE DEF SliceShape
  <2> QED
    BY <1>b, <2>1, <2>2, SameBook, ZenonT(30)
<1>6. CASE UpdateOrder(p)
  <2>1. \A q \in Checks : pc'[q] = "idle"
    BY <1>0, <1>6, <1>a DEF UpdateOrder, Idle
  <2>2. /\ Placed' = Placed /\ size' = size /\ creator' = creator /\ creator = "done"
        /\ status' # "ACTIVE"
    BY <1>6, <1>b, ZenonT(30) DEF UpdateOrder, chainVars, Placed
  <2> HIDE DEF SliceShape
  <2> QED
    BY <2>1, <2>2, SameBook, ZenonT(30)
<1>7. CASE StoreError(p)
  <2>1. \A q \in Checks : pc'[q] = "idle"
    BY <1>0, <1>7, <1>a, ZenonT(30) DEF StoreError, Idle
  <2>2. /\ Placed' = Placed /\ size' = size /\ creator' = creator /\ creator = "done" /\ OnePlaced
        /\ UNCHANGED <<status, filled, displayed, active>>
    BY <1>7, <1>b, ZenonT(30) DEF StoreError, chainVars, Placed
  <2> HIDE DEF SliceShape
  <2> QED
    BY <2>1, <2>2, SameBook, Zenon
<1>8. ~PlaceNextTimesOut(p) /\ ~UpdateFails(p)
  BY ZenonT(30) DEF PlaceNextTimesOut, UpdateFails, Met
<1> QED
  BY <1>1, <1>2, <1>3, <1>4, <1>5, <1>6, <1>7, <1>8, ZenonT(30) DEF CheckStep

\* Cancels and fills place nothing.
LEMMA OtherAmounts ==
    ASSUME SliceShape, SlicesApart, size \in [Offers -> Nat], AmountInv,
           \/ \E c \in Cancels : CancelStep(c)
           \/ \E o \in Offers : Fill(o)
           \/ UNCHANGED icebergVars
    PROVE  AmountInv' /\ size' \in [Offers -> Nat]
<1>1. Placed' = Placed /\ size' = size
  <2>1. /\ size' = size
        /\ \/ book' = book
           \/ \E o, s : book[o] = "open" /\ s # "none" /\ book' = [book EXCEPT ![o] = s]
    <3>1. ASSUME NEW c \in Cancels, CancelStep(c) PROVE <2>1!:
      BY <3>1, ZenonT(30) DEF CancelStep, LoadCancel, CancelOffer, CancelOfferFails, MarkCancelled,
         MarkRefused, chainVars
    <3>2. ASSUME NEW o \in Offers, Fill(o) PROVE <2>1!:
      BY <3>2, ZenonT(30) DEF Fill
    <3>3. CASE UNCHANGED icebergVars
      BY <3>3, ZenonT(30) DEF icebergVars, chainVars
    <3> QED
      BY <3>1, <3>2, <3>3, Zenon
  <2>2. DOMAIN book = Offers
    BY Zenon DEF SliceShape
  <2>3. CASE book' = book
    BY <2>1, <2>3, Zenon DEF Placed
  <2> QED
    BY <2>1, <2>2, <2>3, StillPlaced, Zenon
<1>2. UNCHANGED <<creator, active, filled, displayed>>
  BY DEF CancelStep, LoadCancel, CancelOffer, CancelOfferFails, MarkCancelled,
     MarkRefused, Fill, icebergVars, orderVars
<1>3. ASSUME NEW p \in Checks
      PROVE  pc'[p] = pc[p] /\ copy'[p] = copy[p]
  <2>1. p \in Calls /\ p \notin Cancels
    BY BoundsAssumption DEF Calls
  <2> QED
    BY <2>1, ZenonT(30) DEF SliceShape, CancelStep, LoadCancel, CancelOffer, CancelOfferFails, MarkCancelled,
     MarkRefused, Answer, Fill, icebergVars, callVars
<1>4. status' = status \/ status' # "ACTIVE"
  BY DEF CancelStep, LoadCancel, CancelOffer, CancelOfferFails, MarkCancelled,
     MarkRefused, Fill, icebergVars, orderVars
<1> QED
  BY <1>1, <1>2, <1>3, <1>4, SameBook, ZenonT(30) DEF AmountInv

\* SoldWithinTotal: without overlapping checks, timeouts and failed statements
\* the slices sold and on offer never add up to more than totalAmount, for
\* every total and display amount, any number of checks and cancels, and
\* whatever Horizon answers.
THEOREM SalesStayWithinTotal == IcebergSpec => []SoldWithinTotal
<1>1. IcebergInit => Amounts
  BY SizesAssumption DEF IcebergInit, Amounts, AmountInv, Placed, OnePlaced, WithinTotal, Calls
<1>2. SliceInv /\ Amounts /\ [IcebergNext]_icebergVars => Amounts'
  <2> SUFFICES ASSUME SliceInv, Amounts, [IcebergNext]_icebergVars, trouble' = {}
               PROVE  size' \in [Offers -> Nat] /\ AmountInv'
    BY DEF Amounts
  <2>1. SliceShape /\ SlicesApart /\ size \in [Offers -> Nat] /\ AmountInv
    BY TroubleGrows DEF SliceInv, SlicesApart, Amounts
  <2> QED
    BY <2>1, CreateAmounts, CheckAmounts, OtherAmounts DEF IcebergNext
<1>3. Amounts => SoldWithinTotal
  BY TotalIsEnough DEF Amounts, AmountInv, SoldWithinTotal
<1> QED
  BY <1>1, <1>2, <1>3, SliceInvariance, PTL DEF IcebergSpec
=============================================================================
