-------------------------------- MODULE OcoOrder --------------------------------
(***************************************************************************)
(* OcoOrderService for ONE order: createOrder, checkAndExecute and         *)
(* cancelOrder running concurrently against the order's row and the two    *)
(* offers of the order in the Stellar book.                                *)
(*                                                                         *)
(* A filled and a cancelled offer look the same to the service (Horizon    *)
(* answers 404).  A delete of an offer that is gone may be answered as a   *)
(* success (what the comment of checkAndExecute says) or as an error, and  *)
(* an error may answer a delete that the network took; all are modelled.   *)
(***************************************************************************)
EXTENDS Integers, FiniteSets

CONSTANTS Checks,   \* concurrent callers of checkAndExecute
          Cancels,  \* cancelOrder requests
          Faults    \* subset of {"horizon", "timeout", "lostId", "db"}

ASSUME CallsAssumption == Checks \cap Cancels = {}

Legs == {"STOP_LOSS", "TAKE_PROFIT"}
Sibling(l) == CHOOSE m \in Legs : m # l

VARIABLES status, version,   \* columns of the order's row
          ids,               \* the legs whose offerId the row holds
          triggered,         \* triggeredLeg: at most one leg, executed
          book,              \* state of each leg's offer on chain
          creator, made,     \* where createOrder is; the ids it knows
          pc,                \* where the other calls are
          read, known,       \* the version and the ids each of them loaded
          gone,              \* the legs a check found gone
          errors,            \* the cancelErrors of a cancelOrder
          failed,            \* what failed in a check: probes of legs, the update
          trouble            \* kinds of trouble met so far

orderVars == <<status, version, ids, triggered>>
callVars == <<pc, read, known, gone, errors, failed>>
ocoVars == <<orderVars, book, creator, made, callVars, trouble>>

Calls == Checks \cup Cancels

\* Two calls at once; placing the offers failed or lost an id; a delete failed
\* and the offer stays; a delete failed and the offer is gone; a statement failed.
Troubles == {"overlap", "place", "kept", "late", "db"}

PCs == {"idle", "probeSL", "probeTP", "sibling", "update",
        "STOP_LOSS", "TAKE_PROFIT", "mark", "done"}

OcoTypeOK ==
    /\ status \in {"none", "ACTIVE", "FILLED", "CANCELLED"}
    /\ version \in Nat
    /\ ids \in SUBSET Legs
    /\ triggered \in SUBSET Legs /\ Cardinality(triggered) <= 1
    /\ book \in [Legs -> {"none", "open", "filled", "cancelled"}]
    /\ creator \in {"start", "place", "save", "fail", "done"}
    /\ made \in SUBSET Legs
    /\ pc \in [Calls -> PCs]
    /\ read \in [Calls -> Nat] /\ known \in [Calls -> SUBSET Legs]
    /\ gone \in [Calls -> SUBSET Legs]
    /\ errors \in [Calls -> 0..2]
    /\ failed \in [Calls -> SUBSET (Legs \cup {"db"})]
    /\ trouble \subseteq Troubles

OcoInit ==
    /\ status = "none" /\ version = 0 /\ ids = {} /\ triggered = {}
    /\ book = [l \in Legs |-> "none"]
    /\ creator = "start" /\ made = {}
    /\ pc = [p \in Calls |-> "idle"]
    /\ read = [p \in Calls |-> 0] /\ known = [p \in Calls |-> {}]
    /\ gone = [p \in Calls |-> {}]
    /\ errors = [p \in Calls |-> 0] /\ failed = [p \in Calls |-> {}]
    /\ trouble = {}

\* This kind of trouble is met in a step, if the condition holds.
MetIf(cond, kind) == trouble' = IF cond THEN trouble \cup {kind} ELSE trouble

-----------------------------------------------------------------------------
(* createOrder *)

CreateRow ==
    /\ creator = "start"
    /\ status' = "ACTIVE" /\ version' = 1
    /\ creator' = "place"
    /\ UNCHANGED <<ids, triggered, book, made, callVars, trouble>>

\* One transaction places both offers; extractOfferIds may miss ids.
PlaceLegs ==
    /\ creator = "place"
    /\ book' = [l \in Legs |-> "open"]
    /\ \E found \in SUBSET Legs :
          /\ found = Legs \/ "lostId" \in Faults
          /\ made' = found
          /\ MetIf(found # Legs, "place")
    /\ creator' = "save"
    /\ UNCHANGED <<orderVars, callVars>>

\* The submission fails, or times out although the network took it.
PlaceLegsFails ==
    /\ creator = "place"
    /\ \/ "horizon" \in Faults /\ book' = book
       \/ "timeout" \in Faults /\ book' = [l \in Legs |-> "open"]
    /\ MetIf(TRUE, "place")
    /\ creator' = "fail"
    /\ UNCHANGED <<orderVars, made, callVars>>

\* repo.save(saved): the row becomes what createOrder holds.
SaveCreated(s) ==
    /\ status' = s /\ version' = version + 1
    /\ ids' = made /\ triggered' = {}
    /\ creator' = "done"
    /\ UNCHANGED <<book, made, callVars, trouble>>

SaveIds == creator = "save" /\ SaveCreated("ACTIVE")
CancelCreated == creator = "fail" /\ SaveCreated("CANCELLED")

\* A save fails: the first one leads to the catch block, the second one out.
SaveFails ==
    /\ "db" \in Faults
    /\ creator \in {"save", "fail"}
    /\ MetIf(TRUE, "db")
    /\ creator' = IF creator = "save" THEN "fail" ELSE "done"
    /\ UNCHANGED <<orderVars, book, made, callVars>>

-----------------------------------------------------------------------------
(* checkAndExecute *)

Idle(p) ==
    /\ pc' = [pc EXCEPT ![p] = "idle"]
    /\ read' = [read EXCEPT ![p] = 0]
    /\ known' = [known EXCEPT ![p] = {}]
    /\ gone' = [gone EXCEPT ![p] = {}]
    /\ errors' = errors

Load(p, step) ==
    /\ pc[p] = "idle"
    /\ status = "ACTIVE"
    /\ MetIf(\E q \in Calls : pc[q] \notin {"idle", "done"}, "overlap")
    /\ read' = [read EXCEPT ![p] = version]
    /\ known' = [known EXCEPT ![p] = ids]
    /\ failed' = [failed EXCEPT ![p] = {}]
    /\ pc' = [pc EXCEPT ![p] = step]
    /\ UNCHANGED <<orderVars, book, creator, made, gone, errors>>

LoadCheck(p) == p \in Checks /\ Load(p, "probeSL")

\* Horizon's true answer: an offer with an id that is no longer in the book.
IsGone(p, l) == (l \in known[p]) /\ (book[l] \in {"filled", "cancelled"})

\* Mutant: an offer that cannot be read counts as gone.
IsOfferFilledOnError(p, l) ==
    {IsGone(p, l)} \cup (IF "horizon" \in Faults THEN {TRUE} ELSE {})

\* The answers isOfferFilled may give on a leg.
IsOfferFilled(p, l) ==
    {IsGone(p, l)} \cup (IF "horizon" \in Faults THEN {FALSE} ELSE {})

\* These failed in check p.
FailedIn(p, S) == failed' = [failed EXCEPT ![p] = @ \cup S]

\* The probe of a leg was answered with yes, or else with an error.
Missed(p, l, yes) == IF yes = IsGone(p, l) THEN {} ELSE {l}

ProbeStopLoss(p) ==
    /\ pc[p] = "probeSL"
    /\ \E yes \in IsOfferFilled(p, "STOP_LOSS") :
          /\ gone' = [gone EXCEPT ![p] = IF yes THEN {"STOP_LOSS"} ELSE {}]
          /\ FailedIn(p, Missed(p, "STOP_LOSS", yes))
    /\ pc' = [pc EXCEPT ![p] = "probeTP"]
    /\ UNCHANGED <<orderVars, book, creator, made, read, known, errors, trouble>>

ProbeTakeProfit(p) ==
    /\ pc[p] = "probeTP"
    /\ \E yes \in IsOfferFilled(p, "TAKE_PROFIT") :
          /\ FailedIn(p, Missed(p, "TAKE_PROFIT", yes))
          /\ IF gone[p] = {} /\ ~yes
                THEN Idle(p)
                ELSE /\ gone' = [gone EXCEPT ![p] = IF yes THEN @ \cup {"TAKE_PROFIT"} ELSE @]
                     /\ pc' = [pc EXCEPT ![p] = "sibling"]
                     /\ UNCHANGED <<read, known, errors>>
    /\ UNCHANGED <<orderVars, book, creator, made, trouble>>

\* triggeredLeg: the stop-loss first.
TriggeredLeg(p) == IF "STOP_LOSS" \in gone[p] THEN "STOP_LOSS" ELSE "TAKE_PROFIT"

\* cancelOffer on an open offer; a leg without an id is left alone.
Deleted(p, l) ==
    IF l \in known[p] /\ book[l] = "open" THEN [book EXCEPT ![l] = "cancelled"] ELSE book

\* Mutant: the offer deleted is the one that triggered.
CancelSiblingSwapped(p) ==
    /\ pc[p] = "sibling"
    /\ book' = Deleted(p, TriggeredLeg(p))
    /\ pc' = [pc EXCEPT ![p] = "update"]
    /\ UNCHANGED <<orderVars, creator, made, read, known, gone, errors, failed, trouble>>

\* An error answers the delete of an open offer: the offer stays, or it is gone
\* although the answer was lost.
DeleteFails(p, l) ==
    /\ l \in known[p] /\ book[l] = "open"
    /\ \/ "horizon" \in Faults /\ book' = book /\ MetIf(TRUE, "kept")
       \/ "timeout" \in Faults /\ book' = Deleted(p, l) /\ MetIf(TRUE, "late")

\* Mutant: the check gives up when the sibling cannot be deleted.
CancelSiblingAborts(p) ==
    /\ pc[p] = "sibling"
    /\ LET l == Sibling(TriggeredLeg(p))
       IN  \/ /\ book' = Deleted(p, l) /\ UNCHANGED trouble
              /\ pc' = [pc EXCEPT ![p] = "update"] /\ UNCHANGED <<read, known, gone, errors>>
           \/ DeleteFails(p, l) /\ Idle(p)
    /\ UNCHANGED <<orderVars, creator, made, failed>>

\* Best effort: the status is updated whatever the delete answers.
CancelSibling(p) ==
    /\ pc[p] = "sibling"
    /\ LET l == Sibling(TriggeredLeg(p))
       IN  \/ book' = Deleted(p, l) /\ UNCHANGED trouble
           \/ DeleteFails(p, l)
    /\ pc' = [pc EXCEPT ![p] = "update"]
    /\ UNCHANGED <<orderVars, creator, made, read, known, gone, errors, failed>>

Unmodified(p) == version = read[p]

MarkFilled(p) ==
    /\ pc[p] = "update"
    /\ Unmodified(p)
    /\ status' = "FILLED" /\ version' = version + 1
    /\ triggered' = {TriggeredLeg(p)}
    /\ Idle(p)
    /\ UNCHANGED <<ids, book, creator, made, failed, trouble>>

\* "modified concurrently (e.g. cancelled)", or the update fails.
MarkFilledRefused(p) ==
    /\ pc[p] = "update"
    /\ ~Unmodified(p) \/ "db" \in Faults
    /\ MetIf(Unmodified(p), "db")
    /\ FailedIn(p, IF Unmodified(p) THEN {"db"} ELSE {})
    /\ Idle(p)
    /\ UNCHANGED <<orderVars, book, creator, made>>

-----------------------------------------------------------------------------
(* cancelOrder *)

LoadCancel(c) == c \in Cancels /\ Load(c, "STOP_LOSS")

\* One turn of the loop over the two legs; an offer already gone may be
\* answered as a success or as an error.
CancelLeg(c) ==
    /\ pc[c] \in Legs
    /\ LET l == pc[c]
       IN  \/ book' = Deleted(c, l) /\ UNCHANGED <<errors, trouble>>
           \/ /\ \/ DeleteFails(c, l)
                 \/ /\ l \in known[c] /\ book[l] # "open"
                    /\ UNCHANGED <<book, trouble>>
              /\ errors' = [errors EXCEPT ![c] = @ + 1]
    /\ pc' = [pc EXCEPT ![c] = IF @ = "STOP_LOSS" THEN "TAKE_PROFIT" ELSE "mark"]
    /\ UNCHANGED <<orderVars, creator, made, read, known, gone, failed>>

Answer(c) ==
    /\ pc' = [pc EXCEPT ![c] = "done"]
    /\ read' = [read EXCEPT ![c] = 0]
    /\ known' = [known EXCEPT ![c] = {}]
    /\ errors' = [errors EXCEPT ![c] = 0]
    /\ UNCHANGED <<gone, failed>>

MarkCancelled(c) ==
    /\ pc[c] = "mark"
    /\ errors[c] < 2
    /\ Unmodified(c)
    /\ status' = "CANCELLED" /\ version' = version + 1
    /\ Answer(c)
    /\ UNCHANGED <<ids, triggered, book, creator, made, trouble>>

\* Both deletes failed, a conflict, or the update fails: an error answer.
MarkCancelledRefused(c) ==
    /\ pc[c] = "mark"
    /\ errors[c] = 2 \/ ~Unmodified(c) \/ "db" \in Faults
    /\ MetIf(errors[c] < 2 /\ Unmodified(c), "db")
    /\ Answer(c)
    /\ UNCHANGED <<orderVars, book, creator, made>>

-----------------------------------------------------------------------------
Fill(l) ==
    /\ book[l] = "open"
    /\ book' = [book EXCEPT ![l] = "filled"]
    /\ UNCHANGED <<orderVars, creator, made, callVars, trouble>>

CreateStep == CreateRow \/ PlaceLegs \/ PlaceLegsFails \/ SaveIds \/ CancelCreated \/ SaveFails

CheckGoesOn(p) ==
    \/ ProbeStopLoss(p) \/ ProbeTakeProfit(p)
    \/ CancelSibling(p) \/ MarkFilled(p) \/ MarkFilledRefused(p)

CheckStep(p) == LoadCheck(p) \/ CheckGoesOn(p)

CancelStep(c) == LoadCancel(c) \/ CancelLeg(c) \/ MarkCancelled(c) \/ MarkCancelledRefused(c)

OcoNext ==
    \/ CreateStep
    \/ \E p \in Checks : CheckStep(p)
    \/ \E c \in Cancels : CancelStep(c)
    \/ \E l \in Legs : Fill(l)

OcoSpec == OcoInit /\ [][OcoNext]_ocoVars

\* A check that was begun runs to its end: every call it awaits is answered.
\* No check need be begun: nothing in the repository calls it periodically.
OcoFairSpec == OcoSpec /\ \A p \in Checks : WF_ocoVars(CheckGoesOn(p))

-----------------------------------------------------------------------------
(* Properties *)

Ended == {"FILLED", "CANCELLED"}

\* Once creation is over, a filled or cancelled order keeps its status and
\* the leg it names: cancelOrder and a late check both find the version moved.
EndedIsFinal ==
    [][(status \in Ended /\ creator = "done") => UNCHANGED <<status, triggered>>]_ocoVars

\* An order that has ended leaves no offer in the book ("One-Cancels-Other"),
\* whatever the order of checks, cancels and creation and whatever probes went
\* unanswered: as long as the offers were placed, each delete was answered as it
\* ended, and no statement failed.
EndedShowsNothing ==
    trouble \subseteq {"overlap"} /\ status \in Ended /\ creator = "done" =>
        \A l \in Legs : book[l] # "open"

TriggeredWasFilled == \A l \in triggered : book[l] = "filled"

\* The leg the row names as executed was really filled, although offers could not
\* be placed, read or deleted: as long as calls did not overlap, no statement
\* failed, and no delete took effect that was answered with an error.
ExecutedWasFilled == trouble \cap {"overlap", "late", "db"} = {} => TriggeredWasFilled

\* "When one leg gets fully filled: 1. Mark that leg as executed" (the comment of
\* checkAndExecute): as long as nothing failed, a leg marked as executed was filled.
MarkedLegWasFilled == trouble \subseteq {"overlap"} => TriggeredWasFilled

\* A check that begins after a leg it knows was filled ends the order, or finds it
\* ended, although the other leg's probe or the delete of the sibling fails
\* ("Best-effort: log but don't block the status update"): only its own probe of
\* that leg and its own update can keep it from that.
FillEndsOrder ==
    \A p \in Checks, l \in Legs :
        pc[p] = "probeSL" /\ l \in known[p] /\ book[l] = "filled"
            ~> status \in Ended \/ failed[p] \cap {l, "db"} # {}
=============================================================================
