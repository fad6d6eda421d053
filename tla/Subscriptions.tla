----------------------------- MODULE Subscriptions -----------------------------
(***************************************************************************)
(* One tier of a provider and its subscriptions: SubscriptionsService,     *)
(* AccessControlService.suspendSubscription and SubscriptionRenewalJob.    *)
(*                                                                         *)
(* A call reads a subscription and its tier, waits for the payment's       *)
(* verification, and saves its copy; only subscribe's writes and           *)
(* cancelTier's are transactions.  Time is the flag "over": the period     *)
(* has ended.  Two reads of one call that follow each other are one stage. *)
(***************************************************************************)
EXTENDS Integers, FiniteSets, FiniteSetsExt

CONSTANTS Subs,         \* subscriptions that may come to be
          SubCalls,     \* requests and job runs
          Prices,       \* the tier's prices, in USDC
          MaxPaymentFailures,
          MaxPayments   \* bound: payments ever verified

ASSUME SubAssumption ==
    /\ Prices \subseteq Nat /\ IsFiniteSet(SubCalls)
    /\ MaxPaymentFailures \in Nat /\ MaxPayments \in Nat

VARIABLES sub, tier,
          stage,      \* where each call is
          target,     \* the subscription it is about
          subCopy, tierCopy, \* what it read
          old,        \* calls whose copies are older than the rows
          income,     \* history: the sum of the payments verified
          payCount,   \* bound counter
          overlap     \* history: "yes" once a call has written from an old copy

subVars == <<sub, tier, stage, target, subCopy, tierCopy, old, income, payCount, overlap>>

Ended == {"CANCELLED", "EXPIRED"}
Subscribed == {"ACTIVE", "SUSPENDED"}
NoSub == [status |-> "NONE", auto |-> "off", failed |-> 0, over |-> "no"]
NoTier == [active |-> "no", price |-> 0, count |-> 0, revenue |-> 0]
NoTarget == "none"

SubInit ==
    /\ sub = [s \in Subs |-> NoSub]
    /\ tier \in [active : {"yes"}, price : Prices, count : {0}, revenue : {0}]
    /\ stage = [c \in SubCalls |-> "idle"] /\ target = [c \in SubCalls |-> NoTarget]
    /\ subCopy = [c \in SubCalls |-> NoSub] /\ tierCopy = [c \in SubCalls |-> NoTier]
    /\ old = {} /\ income = 0 /\ payCount = 0 /\ overlap = "no"

Busy(c) == stage[c] # "idle"

\* The steps that use what the call has read.
UsesSub == {"cancel", "revoke", "switch", "renew"}
UsesTier == {"subscribe", "renew", "credit", "update"}

\* The call reads subscription s and the tier, and goes on to stage l.
ReadRows(c, s, l) ==
    /\ ~Busy(c)
    /\ stage' = [stage EXCEPT ![c] = l]
    /\ target' = [target EXCEPT ![c] = s]
    /\ subCopy' = [subCopy EXCEPT ![c] = IF l \in UsesSub THEN sub[s] ELSE NoSub]
    /\ tierCopy' = [tierCopy EXCEPT ![c] = IF l \in UsesTier THEN tier ELSE NoTier]
    /\ old' = old \ {c}
    /\ UNCHANGED <<sub, tier, income, payCount, overlap>>

\* A write by c: the other calls' copies are old now.
Writes(c) ==
    /\ old' = {d \in SubCalls \ {c} : Busy(d)} \cup (old \cap {c})
    /\ overlap' = IF c \in old THEN "yes" ELSE overlap

Proceeds(c, l) ==
    /\ stage' = [stage EXCEPT ![c] = l]
    /\ target' = [target EXCEPT ![c] = IF l = "idle" THEN NoTarget ELSE @]
    /\ subCopy' = [subCopy EXCEPT ![c] = IF l \in UsesSub THEN @ ELSE NoSub]
    /\ tierCopy' = [tierCopy EXCEPT ![c] = IF l \in UsesTier THEN @ ELSE NoTier]

Less(n) == IF n > 0 THEN n - 1 ELSE 0
SaveSub(c, s, row) == sub' = [sub EXCEPT ![s] = row]
PaymentVerified(c) ==
    /\ payCount < MaxPayments
    /\ payCount' = payCount + 1
    /\ income' = income + tierCopy[c].price

-----------------------------------------------------------------------------
(* subscribe *)

StartSubscribe(c) ==
    /\ tier.active = "yes"
    /\ \A s \in Subs : sub[s].status # "ACTIVE"
    /\ \E s \in Subs : sub[s].status = "NONE" /\ ReadRows(c, s, "subscribe")

\* The transaction: the count is incremented in place, the revenue is computed
\* from the copy.  The identifier is a fresh one.
CommitSubscribe(c) ==
    /\ stage[c] = "subscribe" /\ PaymentVerified(c)
    /\ LET s == CHOOSE s \in Subs : sub[s].status = "NONE" IN
          /\ \E t \in Subs : sub[t].status = "NONE"
          /\ \E a \in {"on", "off"} : SaveSub(c, s, [NoSub EXCEPT !.status = "ACTIVE", !.auto = a])
    /\ tier' = [tier EXCEPT !.count = @ + 1, !.revenue = tierCopy[c].revenue + tierCopy[c].price]
    /\ Writes(c) /\ Proceeds(c, "idle")

\* The payment does not verify.
RefuseSubscribe(c) ==
    /\ stage[c] = "subscribe"
    /\ Proceeds(c, "idle")
    /\ old' = old \ {c}
    /\ UNCHANGED <<sub, tier, income, payCount, overlap>>

-----------------------------------------------------------------------------
(* cancelSubscription, pauseSubscription, resumeSubscription *)

StartCancel(c) ==
    \E s \in Subs : sub[s].status \in Subscribed /\ ReadRows(c, s, "cancel")

\* immediate: the subscriber is uncounted first.
UncountSubscriber(c) ==
    /\ stage[c] = "cancel"
    /\ tier' = [tier EXCEPT !.count = Less(@)]
    /\ Writes(c) /\ Proceeds(c, "revoke")
    /\ UNCHANGED <<sub, income, payCount>>

\* The save, of an immediate cancellation or of one at the period's end.
SaveCancel(c) ==
    /\ stage[c] \in {"cancel", "revoke"}
    /\ SaveSub(c, target[c],
               [subCopy[c] EXCEPT !.auto = "off",
                                  !.status = IF stage[c] = "revoke" THEN "CANCELLED" ELSE @])
    /\ Writes(c) /\ Proceeds(c, "idle")
    /\ UNCHANGED <<tier, income, payCount>>

StartPauseOrResume(c) ==
    \E s \in Subs : sub[s].status = "ACTIVE" /\ ReadRows(c, s, "switch")

SavePauseOrResume(c) ==
    /\ stage[c] = "switch"
    /\ SaveSub(c, target[c],
               [subCopy[c] EXCEPT !.auto = IF @ = "on" THEN "off" ELSE "on"])
    /\ Writes(c) /\ Proceeds(c, "idle")
    /\ UNCHANGED <<tier, income, payCount>>

-----------------------------------------------------------------------------
(* renewSubscription *)

\* Mutant: the status is not checked.
StartRenewAnyStatus(c) ==
    \E s \in Subs :
        /\ sub[s].status # "NONE" /\ sub[s].auto \in {"on", "off"}
        /\ tier.active = "yes"
        /\ ReadRows(c, s, "renew")

StartRenew(c) ==
    \E s \in Subs :
        /\ sub[s].auto = "on" /\ sub[s].status \in Subscribed
        /\ tier.active = "yes"
        /\ ReadRows(c, s, "renew")

RenewSubscription(c) ==
    /\ stage[c] = "renew" /\ PaymentVerified(c)
    /\ SaveSub(c, target[c], [subCopy[c] EXCEPT !.status = "ACTIVE", !.failed = 0, !.over = "no"])
    /\ Writes(c) /\ Proceeds(c, "credit")
    /\ UNCHANGED tier

\* Mutant: the total is set to the price.
CreditRenewalAfresh(c) ==
    /\ stage[c] = "credit"
    /\ tier' = [tier EXCEPT !.revenue = tierCopy[c].price]
    /\ Writes(c) /\ Proceeds(c, "idle")
    /\ UNCHANGED <<sub, income, payCount>>

\* The tier's total, computed from the copy.
CreditRenewal(c) ==
    /\ stage[c] = "credit"
    /\ tier' = [tier EXCEPT !.revenue = tierCopy[c].revenue + tierCopy[c].price]
    /\ Writes(c) /\ Proceeds(c, "idle")
    /\ UNCHANGED <<sub, income, payCount>>

\* recordFailedRenewal.
RecordFailedRenewal(c) ==
    /\ stage[c] = "renew"
    /\ LET n == subCopy[c].failed + 1
           suspended == n >= MaxPaymentFailures
       IN  /\ SaveSub(c, target[c],
                      [subCopy[c] EXCEPT !.failed = IF suspended THEN MaxPaymentFailures ELSE n,
                                         !.status = IF suspended THEN "SUSPENDED" ELSE @])
           /\ Proceeds(c, IF suspended THEN "suspend" ELSE "idle")
    /\ Writes(c)
    /\ UNCHANGED <<tier, income, payCount>>

\* accessControl.suspendSubscription.
SuspendSubscription(c) ==
    /\ stage[c] = "suspend"
    /\ SaveSub(c, target[c], [sub[target[c]] EXCEPT !.status = "SUSPENDED"])
    /\ Writes(c) /\ Proceeds(c, "idle")
    /\ UNCHANGED <<tier, income, payCount>>

-----------------------------------------------------------------------------
(* The provider *)

StartUpdateTier(c) == ReadRows(c, CHOOSE s \in Subs : TRUE, "update")

\* updateTier saves its whole copy; the price may only change without subscribers.
UpdateTier(c) ==
    /\ stage[c] = "update"
    /\ \E p \in Prices, a \in {"yes", "no"} :
          /\ p # tierCopy[c].price => tierCopy[c].count = 0
          /\ tier' = [tierCopy[c] EXCEPT !.price = p, !.active = a]
    /\ Writes(c) /\ Proceeds(c, "idle")
    /\ UNCHANGED <<sub, income, payCount>>

\* cancelTier's transaction: suspended subscriptions are left as they are.
CancelTier ==
    /\ sub' = [s \in Subs |-> IF sub[s].status = "ACTIVE"
                                 THEN [sub[s] EXCEPT !.status = "CANCELLED", !.auto = "off"]
                                 ELSE sub[s]]
    /\ tier' = [tier EXCEPT !.active = "no", !.count = 0]
    /\ old' = {d \in SubCalls : Busy(d)}
    /\ UNCHANGED <<stage, target, subCopy, tierCopy, income, payCount, overlap>>

-----------------------------------------------------------------------------
(* SubscriptionRenewalJob *)

PeriodEnds(s) ==
    /\ sub[s].status # "NONE" /\ sub[s].over = "no"
    /\ sub' = [sub EXCEPT ![s].over = "yes"]
    /\ UNCHANGED <<tier, stage, target, subCopy, tierCopy, old, income, payCount, overlap>>

\* handleExpiredSubscriptions lists the subscriptions...
ListExpired(c) ==
    \E s \in Subs : sub[s].status \in Subscribed /\ sub[s].over = "yes" /\ ReadRows(c, s, "expire")

\* ... ends each without looking again ...
ExpireSubscription(c) ==
    /\ stage[c] = "expire"
    /\ SaveSub(c, target[c], [sub[target[c]] EXCEPT !.status = "EXPIRED", !.auto = "off"])
    /\ Writes(c) /\ Proceeds(c, "uncount")
    /\ UNCHANGED <<tier, income, payCount>>

\* ... and uncounts it.
UncountExpired(c) ==
    /\ stage[c] = "uncount"
    /\ tier' = [tier EXCEPT !.count = Less(@)]
    /\ Writes(c) /\ Proceeds(c, "idle")
    /\ UNCHANGED <<sub, income, payCount>>

\* handleSuspendedSubscriptions ends a suspended one, and does not uncount it.
ListSuspended(c) ==
    \E s \in Subs : sub[s].status = "SUSPENDED" /\ sub[s].over = "yes" /\ ReadRows(c, s, "lapse")

LapseSuspended(c) ==
    /\ stage[c] = "lapse"
    /\ SaveSub(c, target[c], [sub[target[c]] EXCEPT !.status = "EXPIRED"])
    /\ Writes(c) /\ Proceeds(c, "idle")
    /\ UNCHANGED <<tier, income, payCount>>

-----------------------------------------------------------------------------
SubNext ==
    \/ \E c \in SubCalls :
          \/ StartSubscribe(c) \/ CommitSubscribe(c) \/ RefuseSubscribe(c)
          \/ StartCancel(c) \/ UncountSubscriber(c) \/ SaveCancel(c)
          \/ StartPauseOrResume(c) \/ SavePauseOrResume(c)
          \/ StartRenew(c) \/ RenewSubscription(c) \/ CreditRenewal(c)
          \/ RecordFailedRenewal(c) \/ SuspendSubscription(c)
          \/ StartUpdateTier(c) \/ UpdateTier(c)
          \/ ListExpired(c) \/ ExpireSubscription(c) \/ UncountExpired(c)
          \/ ListSuspended(c) \/ LapseSuspended(c)
    \/ CancelTier
    \/ \E s \in Subs : PeriodEnds(s)

SubSpec == SubInit /\ [][SubNext]_subVars

-----------------------------------------------------------------------------
(* Properties *)

TotalPrice(copies, calls) == MapThenSumSet(LAMBDA c : copies[c].price, calls)

\* The tier's total revenue is the sum of the payments verified, or will be once
\* renewals that were saved are credited, until a call has written from an old copy.
RevenueIsTrue ==
    overlap = "no" =>
        income = tier.revenue + TotalPrice(tierCopy, {c \in SubCalls : stage[c] = "credit"})

\* A subscription that was cancelled or has expired is not active again, unless a
\* call that read it before writes it back.
EndedStaysEnded ==
    [][\A s \in Subs :
          sub[s].status \in Ended /\ sub'[s].status \notin Ended => overlap' = "yes"]_subVars
=============================================================================
