---------------------------- MODULE CountingProofs -----------------------------
(***************************************************************************)
(* Proofs in which prices are summed or calls are counted: Subscriptions,  *)
(* for any number of subscriptions and calls and any prices; and           *)
(* CircuitBreaker, for any number of concurrent calls.  The sum in         *)
(* RevenueIsTrue is a fold; what it computes is proved by induction over   *)
(* the size of the set, in the form of a least counterexample.             *)
(***************************************************************************)
EXTENDS Subscriptions, CircuitBreaker, FiniteSetTheorems, WellFoundedInduction, TLAPS

-----------------------------------------------------------------------------
(* Sums over finite sets *)

\* Induction over the natural numbers, for sets.
LEMMA SetOfAllNaturals ==
    ASSUME NEW A \in SUBSET Nat, 0 \in A, \A n \in A : n + 1 \in A
    PROVE  A = Nat
<1> SUFFICES ASSUME Nat \ A # {} PROVE FALSE
  BY Zenon
<1>1. PICK x \in Nat \ A : \A y \in Nat \ A : ~(<<y, x>> \in OpToRel(<, Nat))
  BY NatLessThanWellFounded, WFMin, Zenon
<1>2. x # 0 /\ x - 1 \in Nat /\ (x - 1) + 1 = x
  OBVIOUS
<1>3. x - 1 \in Nat \ A
  BY <1>2
<1>4. <<x - 1, x>> \in Nat \X Nat /\ <<x - 1, x>>[1] < <<x - 1, x>>[2]
  BY <1>2
<1>5. <<x - 1, x>> \in {ss \in Nat \X Nat : ss[1] < ss[2]}
  BY <1>4
<1>6. <<x - 1, x>> \in OpToRel(<, Nat)
  BY <1>5 DEF OpToRel
<1> QED
  BY <1>1, <1>3, <1>6, Zenon

\* The sum of f over S, as the community modules compute it.
SumOf(f, S) == MapThenSumSet(LAMBDA c : f[c], S)

\* The element the fold takes next, and what it computes for s when g gives
\* the smaller sets.
First(s) == CHOOSE x \in s : TRUE
\* One step of the recursion: an element of s is added to the sum of the rest.
FoldOf(f, g, s) == IF s = {} THEN 0 ELSE f[First(s)] + g[s \ {First(s)}]
\* g solves the recursion on the subsets of S.
IsFold(f, g, S) == \A s \in SUBSET S : g[s] = FoldOf(f, g, s)

\* The next element is one of the set's, and the rest is smaller.
LEMMA FirstIsMember == ASSUME NEW s, s # {} PROVE First(s) \in s
BY DEF First

\* The rest has one element less.
LEMMA Smaller ==
    ASSUME NEW S, IsFiniteSet(S), NEW n \in Nat, NEW s \in SUBSET S, s # {}, Cardinality(s) <= n + 1
    PROVE  s \ {First(s)} \in SUBSET S /\ Cardinality(s \ {First(s)}) <= n
<1>1. IsFiniteSet(s) /\ First(s) \in s
  BY FS_Subset, FirstIsMember
<1>2. Cardinality(s) \in Nat /\ Cardinality(s \ {First(s)}) = Cardinality(s) - 1
  BY <1>1, FS_CardinalityType, FS_RemoveElement
<1> QED
  BY <1>2

\* The fold's recursion has a solution.
LEMMA FoldExists ==
    ASSUME NEW f, NEW S, IsFiniteSet(S)
    PROVE  \E g : g = [s \in SUBSET S |-> FoldOf(f, g, s)]
<1> DEFINE Upto(g, n) == \A s \in SUBSET S : Cardinality(s) <= n => g[s] = FoldOf(f, g, s)
           A == {n \in Nat : \E g : Upto(g, n)}
<1>1. 0 \in A
  <2> DEFINE g == [s \in SUBSET S |-> 0]
  <2>1. ASSUME NEW s \in SUBSET S, Cardinality(s) <= 0 PROVE g[s] = FoldOf(f, g, s)
    <3>1. s = {}
      BY <2>1, FS_Subset, FS_EmptySet, FS_CardinalityType
    <3> QED
      BY <3>1 DEF FoldOf
  <2>2. Upto(g, 0)
    BY <2>1
  <2> HIDE DEF g, Upto
  <2> QED
    BY <2>2
<1>2. ASSUME NEW n \in A PROVE n + 1 \in A
  <2>1. PICK g : Upto(g, n)
    OBVIOUS
  <2> DEFINE h == [s \in SUBSET S |-> IF Cardinality(s) <= n THEN g[s] ELSE FoldOf(f, g, s)]
  <2>2. ASSUME NEW s \in SUBSET S PROVE h[s] = FoldOf(f, g, s) \/ ~(Cardinality(s) <= n + 1)
    BY <2>1
  <2>3. ASSUME NEW s \in SUBSET S, Cardinality(s) <= n + 1 PROVE FoldOf(f, h, s) = FoldOf(f, g, s)
    <3>1. CASE s = {}
      BY <3>1 DEF FoldOf
    <3>2. CASE s # {}
      <4>1. s \ {First(s)} \in SUBSET S /\ Cardinality(s \ {First(s)}) <= n
        BY <2>3, <3>2, Smaller
      <4>2. h[s \ {First(s)}] = g[s \ {First(s)}]
        BY <4>1
      <4> QED
        BY <4>2 DEF FoldOf
    <3> QED
      BY <3>1, <3>2
  <2>4. Upto(h, n + 1)
    BY <2>2, <2>3, Zenon
  <2> HIDE DEF h, Upto
  <2> QED
    BY <2>4
<1>3. A = Nat
  <2> HIDE DEF A
  <2>1. A \in SUBSET Nat
    BY DEF A
  <2> QED
    BY <1>1, <1>2, <2>1, SetOfAllNaturals
<1>4. PICK g : Upto(g, Cardinality(S))
  BY <1>3, FS_CardinalityType
<1>5. ASSUME NEW s \in SUBSET S PROVE g[s] = FoldOf(f, g, s)
  BY <1>4, FS_Subset
<1> DEFINE r == [s \in SUBSET S |-> g[s]]
<1>6. ASSUME NEW s \in SUBSET S PROVE r[s] = FoldOf(f, r, s)
  <2>1. s \ {First(s)} \in SUBSET S
    OBVIOUS
  <2> QED
    BY <1>5, <2>1 DEF FoldOf
<1>7. r = [s \in SUBSET S |-> FoldOf(f, r, s)]
  BY <1>6, Zenon
<1> HIDE DEF r
<1> QED
  BY <1>7

\* Two solutions agree on the finite sets both are defined on.
LEMMA FoldIsUnique ==
    ASSUME NEW f, NEW S, IsFiniteSet(S), NEW g, NEW h, IsFold(f, g, S), IsFold(f, h, S)
    PROVE  \A s \in SUBSET S : g[s] = h[s]
<1> DEFINE Agree(n) == \A s \in SUBSET S : Cardinality(s) <= n => g[s] = h[s]
           A == {n \in Nat : Agree(n)}
<1>1. 0 \in A
  <2>1. ASSUME NEW s \in SUBSET S, Cardinality(s) <= 0 PROVE g[s] = h[s]
    <3>1. s = {}
      BY <2>1, FS_Subset, FS_EmptySet, FS_CardinalityType
    <3> QED
      BY <3>1 DEF IsFold, FoldOf
  <2> QED
    BY <2>1
<1>2. ASSUME NEW n \in A PROVE n + 1 \in A
  <2>1. ASSUME NEW s \in SUBSET S, Cardinality(s) <= n + 1 PROVE g[s] = h[s]
    <3>1. CASE s = {}
      BY <3>1 DEF IsFold, FoldOf
    <3>2. CASE s # {}
      <4>1. g[s \ {First(s)}] = h[s \ {First(s)}]
        BY <2>1, <3>2, Smaller
      <4> QED
        BY <4>1, <3>2 DEF IsFold, FoldOf
    <3> QED
      BY <3>1, <3>2
  <2> QED
    BY <2>1
<1>3. A = Nat
  <2> HIDE DEF A
  <2>1. A \in SUBSET Nat
    BY DEF A
  <2> QED
    BY <1>1, <1>2, <2>1, SetOfAllNaturals
<1>4. Agree(Cardinality(S))
  BY <1>3, FS_CardinalityType
<1> QED
  BY <1>4, FS_Subset

\* What MapThenSumSet computes.
LEMMA SumUnfolds ==
    ASSUME NEW f, NEW S, IsFiniteSet(S)
    PROVE  \E g : IsFold(f, g, S) /\ SumOf(f, S) = g[S]
<1> DEFINE F(g) == [s \in SUBSET S |-> FoldOf(f, g, s)]
<1>1. SumOf(f, S) = (CHOOSE g : g = F(g))[S]
  BY DEF SumOf, MapThenSumSet, MapThenFoldSet, FoldOf, First
<1>2. \E g : g = F(g)
  BY FoldExists, Zenon
<1> HIDE DEF F
<1>3. PICK g : g = F(g) /\ g = (CHOOSE h : h = F(h))
  BY <1>2
<1>4. IsFold(f, g, S)
  BY <1>3 DEF F, IsFold
<1> QED
  BY <1>1, <1>3, <1>4, Zenon

\* The sum of nothing.
LEMMA SumOfNone == ASSUME NEW f PROVE SumOf(f, {}) = 0
BY SumUnfolds, FS_EmptySet DEF IsFold, FoldOf

\* The sum, one element at a time.
LEMMA SumOfFirst ==
    ASSUME NEW f, NEW S, IsFiniteSet(S), S # {}
    PROVE  SumOf(f, S) = f[First(S)] + SumOf(f, S \ {First(S)})
<1> DEFINE T == S \ {First(S)}
<1>1. IsFiniteSet(T) /\ T \in SUBSET S
  BY FS_Subset
<1>2. PICK g : IsFold(f, g, S) /\ SumOf(f, S) = g[S]
  BY SumUnfolds
<1>3. PICK h : IsFold(f, h, T) /\ SumOf(f, T) = h[T]
  BY <1>1, SumUnfolds
<1>4. IsFold(f, g, T)
  BY <1>1, <1>2 DEF IsFold
<1>5. g[T] = h[T]
  BY <1>1, <1>3, <1>4, FoldIsUnique
<1>6. g[S] = f[First(S)] + g[T]
  BY <1>2 DEF IsFold, FoldOf
<1> QED
  BY <1>2, <1>3, <1>5, <1>6

\* The sum of natural numbers is one, and any member may be taken out first.
LEMMA SumOfMember ==
    ASSUME NEW f, NEW D, IsFiniteSet(D), \A x \in D : f[x] \in Nat
    PROVE  \A S \in SUBSET D :
              /\ SumOf(f, S) \in Nat
              /\ \A y \in S : SumOf(f, S) = f[y] + SumOf(f, S \ {y})
<1> DEFINE Good(S) == SumOf(f, S) \in Nat /\ \A y \in S : SumOf(f, S) = f[y] + SumOf(f, S \ {y})
           A == {n \in Nat : \A S \in SUBSET D : Cardinality(S) <= n => Good(S)}
<1>1. 0 \in A
  <2>1. ASSUME NEW S \in SUBSET D, Cardinality(S) <= 0 PROVE Good(S)
    <3>1. S = {}
      BY <2>1, FS_Subset, FS_EmptySet, FS_CardinalityType
    <3> QED
      BY <3>1, SumOfNone
  <2> HIDE DEF Good
  <2> QED
    BY <2>1
<1>2. ASSUME NEW n \in A PROVE n + 1 \in A
  <2>1. ASSUME NEW S \in SUBSET D, Cardinality(S) <= n + 1 PROVE Good(S)
    <3>1. CASE S = {}
      BY <3>1, SumOfNone
    <3>2. CASE S # {}
      <4> DEFINE x == First(S)
      <4>0. x \in S /\ x \in D /\ f[x] \in Nat
        BY <3>2, FirstIsMember
      <4>1. S \ {x} \in SUBSET D /\ Cardinality(S \ {x}) <= n
        BY <2>1, <3>2, Smaller
      <4>2. Good(S \ {x})
        BY <4>1, Zenon
      <4>3. SumOf(f, S) = f[x] + SumOf(f, S \ {x})
        BY <3>2, SumOfFirst, FS_Subset
      <4> HIDE DEF x
      <4>4. SumOf(f, S) \in Nat
        BY <4>0, <4>2, <4>3
      <4>5. ASSUME NEW y \in S, y # x PROVE SumOf(f, S) = f[y] + SumOf(f, S \ {y})
        <5>1. SumOf(f, S \ {x}) = f[y] + SumOf(f, (S \ {x}) \ {y})
          BY <4>2, <4>5
        <5>2. S \ {y} \in SUBSET D /\ Cardinality(S \ {y}) <= n
          <6>1. IsFiniteSet(S)
            BY FS_Subset
          <6>2. Cardinality(S) \in Nat /\ Cardinality(S \ {y}) = Cardinality(S) - 1
            BY <6>1, FS_CardinalityType, FS_RemoveElement
          <6> QED
            BY <2>1, <6>2
        <5>3. Good(S \ {y})
          BY <5>2, Zenon
        <5>4. SumOf(f, S \ {y}) = f[x] + SumOf(f, (S \ {y}) \ {x})
          BY <5>3, <4>0, <4>5, ZenonT(30)
        <5>5. (S \ {x}) \ {y} = (S \ {y}) \ {x}
          OBVIOUS
        <5>6. SumOf(f, (S \ {x}) \ {y}) \in Nat
          <6>1. Cardinality((S \ {x}) \ {y}) <= n
            <7>1. IsFiniteSet(S \ {x})
              BY <4>1, FS_Subset
            <7>2. Cardinality((S \ {x}) \ {y}) = Cardinality(S \ {x}) - 1
              BY <4>5, <7>1, FS_RemoveElement, Zenon
            <7>3. Cardinality(S \ {x}) \in Nat
              BY <7>1, FS_CardinalityType
            <7>4. n \in Nat
              OBVIOUS
            <7> HIDE DEF A, Good
            <7> QED
              BY <4>1, <7>2, <7>3, <7>4
          <6> QED
            BY <6>1
        <5>7. PICK z \in Nat : z = SumOf(f, (S \ {x}) \ {y})
          BY <5>6
        <5>8. SumOf(f, S \ {x}) = f[y] + z /\ SumOf(f, S \ {y}) = f[x] + z
          BY <5>1, <5>4, <5>5, <5>7
        <5>9. f[x] \in Nat /\ f[y] \in Nat
          BY <4>0
        <5> HIDE DEF Good, A
        <5> QED
          BY <5>8, <5>9, <4>3
      <4> QED
        BY <4>3, <4>4, <4>5, Zenon
    <3> QED
      BY <3>1, <3>2
  <2> HIDE DEF Good
  <2> QED
    BY <2>1
<1>3. A = Nat
  <2> HIDE DEF A
  <2>1. A \in SUBSET Nat
    BY DEF A
  <2> QED
    BY <1>1, <1>2, <2>1, SetOfAllNaturals
<1>4. ASSUME NEW S \in SUBSET D PROVE Good(S)
  <2>1. IsFiniteSet(S) /\ Cardinality(S) \in Nat
    BY FS_Subset, FS_CardinalityType
  <2> HIDE DEF Good
  <2> QED
    BY <1>3, <2>1
<1> QED
  BY <1>4

\* Only the values at the members count.
LEMMA SumOfSame ==
    ASSUME NEW f, NEW h, NEW S, IsFiniteSet(S), \A x \in S : f[x] = h[x]
    PROVE  SumOf(f, S) = SumOf(h, S)
<1>1. PICK g : IsFold(f, g, S) /\ SumOf(f, S) = g[S]
  BY SumUnfolds
<1>2. PICK k : IsFold(h, k, S) /\ SumOf(h, S) = k[S]
  BY SumUnfolds
<1>3. ASSUME NEW s \in SUBSET S PROVE k[s] = FoldOf(f, k, s)
  <2>1. s # {} => f[First(s)] = h[First(s)]
    BY FirstIsMember
  <2> QED
    BY <1>2, <2>1, Zenon DEF IsFold, FoldOf
<1>4. IsFold(f, k, S)
  BY <1>3 DEF IsFold
<1> QED
  BY <1>1, <1>2, <1>4, FoldIsUnique

-----------------------------------------------------------------------------
(* Subscriptions *)

\* The row of a subscription and the stages of a call.
SubRow == [status : {"NONE", "ACTIVE", "SUSPENDED", "CANCELLED", "EXPIRED"},
           auto : {"on", "off"}, failed : Nat, over : {"no", "yes"}]

\* The stages of a call.
Stages == {"idle", "subscribe", "cancel", "revoke", "switch", "renew", "credit", "suspend",
           "update", "expire", "uncount", "lapse"}

\* The stages at which a call writes the subscription it read.
WritesSub == UsesSub \cup {"suspend", "expire", "lapse"}

\* Types of what the calls read and write of a subscription.
SubTypeOK ==
    /\ sub \in [Subs -> SubRow]
    /\ stage \in [SubCalls -> Stages]
    /\ subCopy \in [SubCalls -> SubRow]
    /\ target \in [SubCalls -> Subs \cup {NoTarget, CHOOSE s \in Subs : TRUE}]
    /\ \A c \in SubCalls : stage[c] \in WritesSub => target[c] \in Subs

\* Of a subscription that nobody else has written since the call read it, the call
\* knows the status, and it has not ended.
FreshInv ==
    \A c \in SubCalls \ old :
        /\ stage[c] \in UsesSub =>
              subCopy[c].status \in Subscribed /\ sub[target[c]].status = subCopy[c].status
        /\ stage[c] = "suspend" => sub[target[c]].status = "SUSPENDED"

\* The inductive invariant behind EndedStaysEnded.
SubInv == SubTypeOK /\ FreshInv

\* It holds before the first call.
LEMMA SubInitially == SubInit => SubInv
BY DEF SubInit, SubInv, SubTypeOK, FreshInv, SubRow, Stages, WritesSub, UsesSub, NoSub

\* What a call writes back of a row is a row.
LEMMA SubRows ==
    ASSUME NEW row \in SubRow
    PROVE  /\ [row EXCEPT !.status = "CANCELLED", !.auto = "off"] \in SubRow
           /\ [row EXCEPT !.auto = "off", !.status = "CANCELLED"] \in SubRow
           /\ [row EXCEPT !.auto = "off", !.status = @] \in SubRow
           /\ [row EXCEPT !.status = "ACTIVE", !.failed = 0, !.over = "no"] \in SubRow
           /\ [row EXCEPT !.status = "EXPIRED", !.auto = "off"] \in SubRow
BY Zenon DEF SubRow

\* Types.
LEMMA SubTypeKept ==
    ASSUME SubInv, [SubNext]_subVars PROVE SubTypeOK'
<1> USE SubAssumption
        DEF SubInv, SubTypeOK, SubRow, Stages, WritesSub, UsesSub, UsesTier, NoSub,
            Subscribed, Ended
<1>1. ASSUME NEW c \in SubCalls, StartSubscribe(c) PROVE SubTypeOK'
  BY <1>1 DEF StartSubscribe, ReadRows, Busy
<1>2. ASSUME NEW c \in SubCalls, CommitSubscribe(c) PROVE SubTypeOK'
  <2>1. PICK a \in {"on", "off"}, s \in Subs :
            sub' = [sub EXCEPT ![s] = [NoSub EXCEPT !.status = "ACTIVE", !.auto = a]]
    BY <1>2, Zenon DEF CommitSubscribe, SaveSub
  <2>2. [NoSub EXCEPT !.status = "ACTIVE", !.auto = a] \in SubRow /\ NoSub \in SubRow
    BY Zenon
  <2> HIDE DEF SubRow, NoSub
  <2>3. sub' \in [Subs -> SubRow]
    BY <2>1, <2>2
  <2> QED
    BY <1>2, <2>2, <2>3 DEF CommitSubscribe, Proceeds
<1>3. ASSUME NEW c \in SubCalls, RefuseSubscribe(c) PROVE SubTypeOK'
  BY <1>3 DEF RefuseSubscribe, Proceeds
<1>4. ASSUME NEW c \in SubCalls, StartCancel(c) PROVE SubTypeOK'
  BY <1>4 DEF StartCancel, ReadRows, Busy
<1>5. ASSUME NEW c \in SubCalls, UncountSubscriber(c) PROVE SubTypeOK'
  BY <1>5 DEF UncountSubscriber, Writes, Proceeds, Busy
<1>6. ASSUME NEW c \in SubCalls, SaveCancel(c) PROVE SubTypeOK'
  <2>1. [subCopy[c] EXCEPT !.auto = "off",
                             !.status = IF stage[c] = "revoke" THEN "CANCELLED" ELSE @] \in SubRow
    <3>1. subCopy[c] \in SubRow
      OBVIOUS
    <3> HIDE DEF SubInv, SubTypeOK, SubRow
    <3> QED
      BY <3>1, SubRows, Zenon
  <2>2. NoSub \in SubRow
    OBVIOUS
  <2> HIDE DEF SubRow, NoSub
  <2>3. sub' \in [Subs -> SubRow]
    BY <1>6, <2>1 DEF SaveCancel, SaveSub
  <2>4. stage'[c] \notin WritesSub
    BY <1>6 DEF SaveCancel, Proceeds
  <2> QED
    BY <1>6, <2>2, <2>3, <2>4 DEF SaveCancel, Proceeds
<1>7. ASSUME NEW c \in SubCalls, StartPauseOrResume(c) PROVE SubTypeOK'
  BY <1>7 DEF StartPauseOrResume, ReadRows, Busy
<1>8. ASSUME NEW c \in SubCalls, SavePauseOrResume(c) PROVE SubTypeOK'
  <2>1. [subCopy[c] EXCEPT !.auto = IF @ = "on" THEN "off" ELSE "on"] \in SubRow
    OBVIOUS
  <2>2. NoSub \in SubRow
    OBVIOUS
  <2> HIDE DEF SubRow, NoSub
  <2>3. sub' \in [Subs -> SubRow]
    BY <1>8, <2>1 DEF SavePauseOrResume, SaveSub
  <2>4. stage'[c] \notin WritesSub
    BY <1>8 DEF SavePauseOrResume, Proceeds
  <2> QED
    BY <1>8, <2>2, <2>3, <2>4 DEF SavePauseOrResume, Proceeds
<1>9. ASSUME NEW c \in SubCalls, StartRenew(c) PROVE SubTypeOK'
  BY <1>9 DEF StartRenew, ReadRows, Busy
<1>10. ASSUME NEW c \in SubCalls, RenewSubscription(c) PROVE SubTypeOK'
  <2>1. [subCopy[c] EXCEPT !.status = "ACTIVE", !.failed = 0, !.over = "no"] \in SubRow
    <3>1. subCopy[c] \in SubRow
      OBVIOUS
    <3> HIDE DEF SubInv, SubTypeOK, SubRow
    <3> QED
      BY <3>1, SubRows, Zenon
  <2>2. NoSub \in SubRow
    OBVIOUS
  <2> HIDE DEF SubRow, NoSub
  <2>3. sub' \in [Subs -> SubRow]
    BY <1>10, <2>1 DEF RenewSubscription, SaveSub
  <2>4. stage'[c] \notin WritesSub
    BY <1>10 DEF RenewSubscription, Proceeds
  <2> QED
    BY <1>10, <2>2, <2>3, <2>4 DEF RenewSubscription, Proceeds
<1>11. ASSUME NEW c \in SubCalls, CreditRenewal(c) PROVE SubTypeOK'
  BY <1>11 DEF CreditRenewal, Writes, Proceeds, Busy
<1>12. ASSUME NEW c \in SubCalls, RecordFailedRenewal(c) PROVE SubTypeOK'
  <2> DEFINE n == subCopy[c].failed + 1
             suspended == n >= MaxPaymentFailures
  <2>0. subCopy[c] \in SubRow /\ n \in Nat /\ MaxPaymentFailures \in Nat
    OBVIOUS
  <2>1. /\ [subCopy[c] EXCEPT !.failed = MaxPaymentFailures, !.status = "SUSPENDED"] \in SubRow
        /\ [subCopy[c] EXCEPT !.failed = n, !.status = @] \in SubRow
    <3> HIDE DEF SubInv, SubTypeOK, n
    <3> QED
      BY <2>0, Zenon
  <2>2. NoSub \in SubRow
    OBVIOUS
  <2>3. \/ SaveSub(c, target[c], [subCopy[c] EXCEPT !.failed = MaxPaymentFailures, !.status = "SUSPENDED"])
        \/ SaveSub(c, target[c], [subCopy[c] EXCEPT !.failed = n, !.status = @])
    BY <1>12, Zenon DEF RecordFailedRenewal, SaveSub
  <2>4. stage[c] = "renew" /\ (Proceeds(c, "suspend") \/ Proceeds(c, "idle"))
    BY <1>12 DEF RecordFailedRenewal
  <2> HIDE DEF SubRow, NoSub, n
  <2>5. sub' \in [Subs -> SubRow]
    BY <2>1, <2>3 DEF SaveSub
  <2>6. CASE Proceeds(c, "suspend")
    BY <2>2, <2>4, <2>5, <2>6 DEF Proceeds
  <2>7. CASE Proceeds(c, "idle")
    BY <2>2, <2>4, <2>5, <2>7 DEF Proceeds
  <2> QED
    BY <2>4, <2>6, <2>7
<1>13. ASSUME NEW c \in SubCalls, SuspendSubscription(c) PROVE SubTypeOK'
  BY <1>13 DEF SuspendSubscription, SaveSub, Writes, Proceeds, Busy
<1>14. ASSUME NEW c \in SubCalls, StartUpdateTier(c) PROVE SubTypeOK'
  BY <1>14 DEF StartUpdateTier, ReadRows, Busy
<1>15. ASSUME NEW c \in SubCalls, UpdateTier(c) PROVE SubTypeOK'
  BY <1>15 DEF UpdateTier, Writes, Proceeds, Busy
<1>16. ASSUME NEW c \in SubCalls, ListExpired(c) PROVE SubTypeOK'
  BY <1>16 DEF ListExpired, ReadRows, Busy
<1>17. ASSUME NEW c \in SubCalls, ExpireSubscription(c) PROVE SubTypeOK'
  <2>1. sub[target[c]] \in SubRow
    BY <1>17 DEF ExpireSubscription
  <2>2. [sub[target[c]] EXCEPT !.status = "EXPIRED", !.auto = "off"] \in SubRow
    BY <2>1, Zenon
  <2>3. NoSub \in SubRow
    OBVIOUS
  <2> HIDE DEF SubRow, NoSub
  <2>4. sub' \in [Subs -> SubRow]
    BY <1>17, <2>2 DEF ExpireSubscription, SaveSub
  <2> QED
    BY <1>17, <2>3, <2>4 DEF ExpireSubscription, Proceeds
<1>18. ASSUME NEW c \in SubCalls, UncountExpired(c) PROVE SubTypeOK'
  BY <1>18 DEF UncountExpired, Writes, Proceeds, Busy
<1>19. ASSUME NEW c \in SubCalls, ListSuspended(c) PROVE SubTypeOK'
  BY <1>19 DEF ListSuspended, ReadRows, Busy
<1>20. ASSUME NEW c \in SubCalls, LapseSuspended(c) PROVE SubTypeOK'
  BY <1>20, SMTT(30) DEF LapseSuspended, SaveSub, Writes, Proceeds, Busy
<1>21. CASE CancelTier
  <2>1. UNCHANGED <<stage, target, subCopy>>
    BY <1>21, Zenon DEF CancelTier
  <2>2. \A s \in Subs : sub[s] \in SubRow
    OBVIOUS
  <2> HIDE DEF SubRow
  <2>3. sub' \in [Subs -> SubRow]
    <3> HIDE DEF SubInv, SubTypeOK
    <3> QED
      BY <1>21, <2>2, SubRows, Zenon DEF CancelTier
  <2> QED
    BY <2>1, <2>3
<1>22. ASSUME NEW s \in Subs, PeriodEnds(s) PROVE SubTypeOK'
  <2>1. [sub[s] EXCEPT !.over = "yes"] \in SubRow
    OBVIOUS
  <2> HIDE DEF SubRow
  <2> QED
    BY <1>22, <2>1 DEF PeriodEnds
<1>23. CASE UNCHANGED subVars
  BY <1>23 DEF subVars
<1> QED
  BY <1>1, <1>2, <1>3, <1>4, <1>5, <1>6, <1>7, <1>8, <1>9, <1>10, <1>11, <1>12, <1>13,
     <1>14, <1>15, <1>16, <1>17, <1>18, <1>19, <1>20, <1>21, <1>22, <1>23, ZenonT(30)
     DEF SubNext

\* Every write makes the other calls' copies old.
LEMMA FreshKept ==
    ASSUME SubInv, [SubNext]_subVars PROVE FreshInv'
<1> USE DEF SubInv, SubTypeOK, SubRow, Stages, WritesSub, UsesSub, UsesTier, NoSub,
            Subscribed, Ended, FreshInv
<1>1. ASSUME NEW c \in SubCalls, StartSubscribe(c) PROVE FreshInv'
  BY <1>1 DEF StartSubscribe, ReadRows, Busy
<1>2. ASSUME NEW c \in SubCalls, CommitSubscribe(c) PROVE FreshInv'
  BY <1>2 DEF CommitSubscribe, SaveSub, Writes, Proceeds, Busy, PaymentVerified
<1>3. ASSUME NEW c \in SubCalls, RefuseSubscribe(c) PROVE FreshInv'
  BY <1>3 DEF RefuseSubscribe, Proceeds
<1>4. ASSUME NEW c \in SubCalls, StartCancel(c) PROVE FreshInv'
  BY <1>4 DEF StartCancel, ReadRows, Busy
<1>5. ASSUME NEW c \in SubCalls, UncountSubscriber(c) PROVE FreshInv'
  BY <1>5 DEF UncountSubscriber, Writes, Proceeds, Busy
<1>6. ASSUME NEW c \in SubCalls, SaveCancel(c) PROVE FreshInv'
  BY <1>6 DEF SaveCancel, SaveSub, Writes, Proceeds, Busy
<1>7. ASSUME NEW c \in SubCalls, StartPauseOrResume(c) PROVE FreshInv'
  BY <1>7 DEF StartPauseOrResume, ReadRows, Busy
<1>8. ASSUME NEW c \in SubCalls, SavePauseOrResume(c) PROVE FreshInv'
  BY <1>8 DEF SavePauseOrResume, SaveSub, Writes, Proceeds, Busy
<1>9. ASSUME NEW c \in SubCalls, StartRenew(c) PROVE FreshInv'
  BY <1>9 DEF StartRenew, ReadRows, Busy
<1>10. ASSUME NEW c \in SubCalls, RenewSubscription(c) PROVE FreshInv'
  BY <1>10 DEF RenewSubscription, SaveSub, Writes, Proceeds, Busy
<1>11. ASSUME NEW c \in SubCalls, CreditRenewal(c) PROVE FreshInv'
  BY <1>11 DEF CreditRenewal, Writes, Proceeds, Busy
<1>12. ASSUME NEW c \in SubCalls, RecordFailedRenewal(c) PROVE FreshInv'
  BY <1>12 DEF RecordFailedRenewal, SaveSub, Writes, Proceeds, Busy
<1>13. ASSUME NEW c \in SubCalls, SuspendSubscription(c) PROVE FreshInv'
  BY <1>13 DEF SuspendSubscription, SaveSub, Writes, Proceeds, Busy
<1>14. ASSUME NEW c \in SubCalls, StartUpdateTier(c) PROVE FreshInv'
  BY <1>14 DEF StartUpdateTier, ReadRows, Busy
<1>15. ASSUME NEW c \in SubCalls, UpdateTier(c) PROVE FreshInv'
  BY <1>15 DEF UpdateTier, Writes, Proceeds, Busy
<1>16. ASSUME NEW c \in SubCalls, ListExpired(c) PROVE FreshInv'
  BY <1>16 DEF ListExpired, ReadRows, Busy
<1>17. ASSUME NEW c \in SubCalls, ExpireSubscription(c) PROVE FreshInv'
  BY <1>17 DEF ExpireSubscription, SaveSub, Writes, Proceeds, Busy
<1>18. ASSUME NEW c \in SubCalls, UncountExpired(c) PROVE FreshInv'
  BY <1>18 DEF UncountExpired, Writes, Proceeds, Busy
<1>19. ASSUME NEW c \in SubCalls, ListSuspended(c) PROVE FreshInv'
  BY <1>19 DEF ListSuspended, ReadRows, Busy
<1>20. ASSUME NEW c \in SubCalls, LapseSuspended(c) PROVE FreshInv'
  BY <1>20 DEF LapseSuspended, SaveSub, Writes, Proceeds, Busy
<1>21. CASE CancelTier
  BY <1>21, Zenon DEF CancelTier, Busy
<1>22. ASSUME NEW s \in Subs, PeriodEnds(s) PROVE FreshInv'
  BY <1>22 DEF PeriodEnds
<1>23. CASE UNCHANGED subVars
  BY <1>23 DEF subVars
<1> QED
  BY <1>1, <1>2, <1>3, <1>4, <1>5, <1>6, <1>7, <1>8, <1>9, <1>10, <1>11, <1>12, <1>13,
     <1>14, <1>15, <1>16, <1>17, <1>18, <1>19, <1>20, <1>21, <1>22, <1>23, ZenonT(30)
     DEF SubNext

\* The step of EndedStaysEnded.
Revives == \A s \in Subs : sub[s].status \in Ended /\ sub'[s].status \notin Ended => overlap' = "yes"

\* Only a call with an old copy brings an ended subscription back.
LEMMA ReviveStep ==
    ASSUME SubInv, [SubNext]_subVars PROVE Revives
<1> USE DEF SubInv, SubTypeOK, SubRow, Stages, WritesSub, UsesSub, UsesTier, NoSub,
            Subscribed, Ended, FreshInv, Revives
<1>1. ASSUME NEW c \in SubCalls, StartSubscribe(c) PROVE Revives
  BY <1>1 DEF StartSubscribe, ReadRows, Busy
<1>2. ASSUME NEW c \in SubCalls, CommitSubscribe(c) PROVE Revives
  BY <1>2 DEF CommitSubscribe, SaveSub, Writes, Proceeds, Busy, PaymentVerified
<1>3. ASSUME NEW c \in SubCalls, RefuseSubscribe(c) PROVE Revives
  BY <1>3 DEF RefuseSubscribe, Proceeds
<1>4. ASSUME NEW c \in SubCalls, StartCancel(c) PROVE Revives
  BY <1>4 DEF StartCancel, ReadRows, Busy
<1>5. ASSUME NEW c \in SubCalls, UncountSubscriber(c) PROVE Revives
  BY <1>5 DEF UncountSubscriber, Writes, Proceeds, Busy
<1>6. ASSUME NEW c \in SubCalls, SaveCancel(c) PROVE Revives
  BY <1>6 DEF SaveCancel, SaveSub, Writes, Proceeds, Busy
<1>7. ASSUME NEW c \in SubCalls, StartPauseOrResume(c) PROVE Revives
  BY <1>7 DEF StartPauseOrResume, ReadRows, Busy
<1>8. ASSUME NEW c \in SubCalls, SavePauseOrResume(c) PROVE Revives
  BY <1>8 DEF SavePauseOrResume, SaveSub, Writes, Proceeds, Busy
<1>9. ASSUME NEW c \in SubCalls, StartRenew(c) PROVE Revives
  BY <1>9 DEF StartRenew, ReadRows, Busy
<1>10. ASSUME NEW c \in SubCalls, RenewSubscription(c) PROVE Revives
  BY <1>10 DEF RenewSubscription, SaveSub, Writes, Proceeds, Busy
<1>11. ASSUME NEW c \in SubCalls, CreditRenewal(c) PROVE Revives
  BY <1>11 DEF CreditRenewal, Writes, Proceeds, Busy
<1>12. ASSUME NEW c \in SubCalls, RecordFailedRenewal(c) PROVE Revives
  BY <1>12 DEF RecordFailedRenewal, SaveSub, Writes, Proceeds, Busy
<1>13. ASSUME NEW c \in SubCalls, SuspendSubscription(c) PROVE Revives
  BY <1>13 DEF SuspendSubscription, SaveSub, Writes, Proceeds, Busy
<1>14. ASSUME NEW c \in SubCalls, StartUpdateTier(c) PROVE Revives
  BY <1>14 DEF StartUpdateTier, ReadRows, Busy
<1>15. ASSUME NEW c \in SubCalls, UpdateTier(c) PROVE Revives
  BY <1>15 DEF UpdateTier, Writes, Proceeds, Busy
<1>16. ASSUME NEW c \in SubCalls, ListExpired(c) PROVE Revives
  BY <1>16 DEF ListExpired, ReadRows, Busy
<1>17. ASSUME NEW c \in SubCalls, ExpireSubscription(c) PROVE Revives
  BY <1>17 DEF ExpireSubscription, SaveSub, Writes, Proceeds, Busy
<1>18. ASSUME NEW c \in SubCalls, UncountExpired(c) PROVE Revives
  BY <1>18 DEF UncountExpired, Writes, Proceeds, Busy
<1>19. ASSUME NEW c \in SubCalls, ListSuspended(c) PROVE Revives
  BY <1>19 DEF ListSuspended, ReadRows, Busy
<1>20. ASSUME NEW c \in SubCalls, LapseSuspended(c) PROVE Revives
  BY <1>20 DEF LapseSuspended, SaveSub, Writes, Proceeds, Busy
<1>21. CASE CancelTier
  BY <1>21, Zenon DEF CancelTier, Busy
<1>22. ASSUME NEW s \in Subs, PeriodEnds(s) PROVE Revives
  BY <1>22 DEF PeriodEnds
<1>23. CASE UNCHANGED subVars
  BY <1>23 DEF subVars
<1> QED
  BY <1>1, <1>2, <1>3, <1>4, <1>5, <1>6, <1>7, <1>8, <1>9, <1>10, <1>11, <1>12, <1>13,
     <1>14, <1>15, <1>16, <1>17, <1>18, <1>19, <1>20, <1>21, <1>22, <1>23, ZenonT(30)
     DEF SubNext

\* SubInv holds throughout.
LEMMA SubInvariance == SubSpec => []SubInv
<1>1. SubInv /\ [SubNext]_subVars => SubInv'
  BY SubTypeKept, FreshKept DEF SubInv
<1> QED
  BY <1>1, SubInitially, PTL DEF SubSpec

\* EndedStaysEnded: a cancelled or expired subscription is active again only by a
\* call that wrote from an old copy, for any number of subscriptions and calls.
THEOREM EndedSubscriptionsStayEnded == SubSpec => EndedStaysEnded
<1> DEFINE Ending == \A s \in Subs :
          sub[s].status \in Ended /\ sub'[s].status \notin Ended => overlap' = "yes"
<1>1. SubInv /\ [SubNext]_subVars => [Ending]_subVars
  BY ReviveStep DEF Revives
<1> QED
  BY <1>1, SubInvariance, PTL DEF SubSpec, EndedStaysEnded

-----------------------------------------------------------------------------
(* The tier's revenue *)

\* The row of a tier.
TierRow == [active : {"yes", "no"}, price : Nat, count : Nat, revenue : Nat]

\* The calls that still have to credit what they were paid.
Credits == {c \in SubCalls : stage[c] = "credit"}

\* Types of what the calls read and write of the tier.
TierTypeOK ==
    /\ tier \in TierRow /\ tierCopy \in [SubCalls -> TierRow] /\ income \in Nat
    /\ stage \in [SubCalls -> Stages]

\* A call that nobody has overtaken knows the tier's revenue.
TierFresh ==
    \A c \in SubCalls \ old : stage[c] \in UsesTier => tierCopy[c].revenue = tier.revenue

\* The inductive invariant of the tier's revenue.
RevenueInv == TierTypeOK /\ TierFresh /\ RevenueIsTrue

\* Steps that read, and steps that leave the money alone and forget the tier.
Reading(c) == \E s, l : l \in Stages \ {"idle", "credit"} /\ ReadRows(c, s, l)
\* Steps of a call that leave the tier and the money alone.
Keeping(c) ==
    /\ stage[c] # "credit" /\ \E l \in Stages \ UsesTier : Proceeds(c, l)
    /\ tier' \in TierRow /\ tier'.revenue = tier.revenue /\ income' = income
    /\ (old' = old \ {c} /\ overlap' = overlap) \/ Writes(c)
\* Steps that move money or save the whole tier.
Earning(c) == CommitSubscribe(c) \/ RenewSubscription(c) \/ CreditRenewal(c) \/ UpdateTier(c)
\* Steps that belong to no call.
Apart ==
    /\ UNCHANGED <<stage, tierCopy, income, overlap>> /\ \A c \in SubCalls : c \in old \ old' => ~Busy(c)
    /\ tier' \in TierRow /\ tier'.revenue = tier.revenue

\* Every step is one of the four kinds.
LEMMA KindsOfStep ==
    ASSUME TierTypeOK, [SubNext]_subVars
    PROVE  Apart \/ \E c \in SubCalls : Reading(c) \/ Keeping(c) \/ Earning(c)
<1>0. /\ [tier EXCEPT !.count = Less(@)] \in TierRow
      /\ [tier EXCEPT !.count = Less(@)].revenue = tier.revenue
      /\ [tier EXCEPT !.active = "no", !.count = 0] \in TierRow
      /\ [tier EXCEPT !.active = "no", !.count = 0].revenue = tier.revenue
  <2>1. tier \in TierRow /\ Less(tier.count) \in Nat
    BY DEF TierTypeOK, TierRow, Less
  <2> HIDE DEF Less
  <2> QED
    BY <2>1, Zenon DEF TierRow
<1> USE DEF TierTypeOK
<1>1. ASSUME NEW c \in SubCalls,
             \/ StartSubscribe(c) \/ StartCancel(c) \/ StartPauseOrResume(c) \/ StartRenew(c)
             \/ StartUpdateTier(c) \/ ListExpired(c) \/ ListSuspended(c)
      PROVE  Reading(c)
  BY <1>1 DEF StartSubscribe, StartCancel, StartPauseOrResume, StartRenew, StartUpdateTier,
     ListExpired, ListSuspended, Reading, Stages
<1>2. ASSUME NEW c \in SubCalls,
             \/ RefuseSubscribe(c) \/ UncountSubscriber(c) \/ SaveCancel(c)
             \/ SavePauseOrResume(c)
      PROVE  Keeping(c)
  BY <1>0, <1>2, Zenon DEF RefuseSubscribe, UncountSubscriber, SaveCancel, SavePauseOrResume, Keeping,
     Stages, UsesTier
<1>3. ASSUME NEW c \in SubCalls,
             \/ RecordFailedRenewal(c) \/ SuspendSubscription(c)
             \/ ExpireSubscription(c) \/ UncountExpired(c) \/ LapseSuspended(c)
      PROVE  Keeping(c)
  BY <1>0, <1>3, Zenon DEF RecordFailedRenewal, SuspendSubscription, ExpireSubscription,
     UncountExpired, LapseSuspended, Keeping, Stages, UsesTier
<1>4. CASE CancelTier
  BY <1>0, <1>4, Zenon DEF CancelTier, Apart, Busy
<1>5. ASSUME NEW s \in Subs, PeriodEnds(s) PROVE Apart
  BY <1>5 DEF PeriodEnds, Apart
<1>6. CASE UNCHANGED subVars
  BY <1>6 DEF subVars, Apart
<1> QED
  BY <1>1, <1>2, <1>3, <1>4, <1>5, <1>6 DEF SubNext, Earning

\* The sum of RevenueIsTrue, as a sum of the values of a function.
PricesIn(copies) == [c \in SubCalls |-> copies[c].price]

\* The sum in RevenueIsTrue is a sum over that function.
LEMMA SumOfPrices ==
    ASSUME NEW copies, NEW S \in SUBSET SubCalls
    PROVE  TotalPrice(copies, S) = SumOf(PricesIn(copies), S)
<1> DEFINE f == PricesIn(copies)
           F(g) == [s \in SUBSET S |-> FoldOf(f, g, s)]
           G(g) == [s \in SUBSET S |-> IF s = {} THEN 0
                                       ELSE copies[First(s)].price + g[s \ {First(s)}]]
<1>0. IsFiniteSet(S)
  BY SubAssumption, FS_Subset
<1>1. TotalPrice(copies, S) = (CHOOSE g : g = G(g))[S]
  BY DEF TotalPrice, MapThenSumSet, MapThenFoldSet, First
<1>2. ASSUME NEW g PROVE G(g) = F(g)
  <2>1. ASSUME NEW s \in SUBSET S, s # {} PROVE f[First(s)] = copies[First(s)].price
    BY <2>1, FirstIsMember DEF PricesIn
  <2> QED
    BY <2>1 DEF FoldOf
<1>3. \E g : g = F(g)
  BY <1>0, FoldExists, Zenon
<1> HIDE DEF F, G, f
<1>4. \E g : g = G(g)
  BY <1>2, <1>3
<1>5. PICK g : g = G(g) /\ g = (CHOOSE h : h = G(h))
  BY <1>4
<1>6. g = F(g)
  BY <1>2, <1>5
<1>7. IsFold(f, g, S)
  BY <1>6 DEF IsFold, F
<1>8. PICK h : IsFold(f, h, S) /\ SumOf(f, S) = h[S]
  BY <1>0, SumUnfolds
<1>9. g[S] = h[S]
  BY <1>0, <1>7, <1>8, FoldIsUnique
<1> QED
  BY <1>1, <1>5, <1>8, <1>9 DEF f

\* What is still to be credited.
Owed == SumOf(PricesIn(tierCopy), Credits)

\* RevenueIsTrue in terms of it, before and after a step.
LEMMA RevenueIs ==
    /\ RevenueIsTrue <=> (overlap = "no" => income = tier.revenue + Owed)
    /\ RevenueIsTrue' <=> (overlap' = "no" => income' = tier'.revenue + Owed')
<1>1. Credits \in SUBSET SubCalls /\ Credits' \in SUBSET SubCalls
  BY DEF Credits
<1>2. RevenueIsTrue <=> (overlap = "no" => income = tier.revenue + Owed)
  BY <1>1, SumOfPrices DEF RevenueIsTrue, Owed, Credits
<1>3. Owed' = SumOf(PricesIn(tierCopy'), Credits')
  BY DEF Owed, PricesIn
<1>4. RevenueIsTrue' <=> (overlap' = "no" => income' = tier'.revenue + Owed')
  BY <1>1, <1>3, SumOfPrices DEF RevenueIsTrue, Credits
<1> QED
  BY <1>2, <1>4

\* How what is still to be credited changes.
LEMMA OwedKept ==
    ASSUME Credits' = Credits, \A c \in Credits : tierCopy'[c] = tierCopy[c]
    PROVE  Owed' = Owed
<1>1. Credits \in SUBSET SubCalls /\ IsFiniteSet(Credits)
  BY SubAssumption, FS_Subset DEF Credits
<1>2. \A c \in Credits : PricesIn(tierCopy')[c] = PricesIn(tierCopy)[c]
  BY <1>1 DEF PricesIn
<1>3. SumOf(PricesIn(tierCopy'), Credits) = SumOf(PricesIn(tierCopy), Credits)
  BY <1>1, <1>2, SumOfSame
<1>4. Owed' = SumOf(PricesIn(tierCopy'), Credits')
  BY DEF Owed, PricesIn
<1> QED
  BY <1>3, <1>4 DEF Owed

\* A call's price can be taken out of the sum.
LEMMA OwedWithout ==
    ASSUME NEW copies \in [SubCalls -> TierRow], NEW C \in SUBSET SubCalls
    PROVE  /\ SumOf(PricesIn(copies), C) \in Nat
           /\ \A c \in C : SumOf(PricesIn(copies), C) = copies[c].price + SumOf(PricesIn(copies), C \ {c})
<1>1. \A x \in SubCalls : PricesIn(copies)[x] \in Nat /\ PricesIn(copies)[x] = copies[x].price
  BY DEF PricesIn, TierRow
<1> QED
  BY <1>1, SubAssumption, SumOfMember

\* The copy of a call that has not read the tier.
LEMMA NoTierIsRow == NoTier \in TierRow
BY DEF NoTier, TierRow

\* A call that reads is not about to credit.
LEMMA ReadingKeeps ==
    ASSUME RevenueInv, NEW c \in SubCalls, Reading(c) PROVE RevenueInv'
<1>1. PICK s, l : l \in Stages \ {"idle", "credit"} /\ ReadRows(c, s, l)
  BY DEF Reading
<1>2. TierTypeOK'
  BY <1>1, NoTierIsRow DEF RevenueInv, TierTypeOK, ReadRows
<1>3. TierFresh'
  BY <1>1 DEF RevenueInv, TierTypeOK, TierFresh, ReadRows
<1>4. Credits' = Credits /\ \A d \in Credits : tierCopy'[d] = tierCopy[d]
  BY <1>1 DEF RevenueInv, TierTypeOK, Credits, ReadRows, Busy
<1>5. Owed' = Owed /\ UNCHANGED <<tier, income, overlap>>
  BY <1>1, <1>4, OwedKept DEF ReadRows
<1>6. RevenueIsTrue'
  BY <1>5, RevenueIs DEF RevenueInv
<1> QED
  BY <1>2, <1>3, <1>6 DEF RevenueInv

\* A call that leaves the money alone forgets its copy of the tier.
LEMMA KeepingKeeps ==
    ASSUME RevenueInv, NEW c \in SubCalls, Keeping(c) PROVE RevenueInv'
<1>1. PICK l \in Stages \ UsesTier : Proceeds(c, l)
  BY DEF Keeping
<1>2. TierTypeOK'
  BY <1>1, NoTierIsRow DEF RevenueInv, TierTypeOK, Proceeds, Keeping
<1>3. TierFresh'
  BY <1>1 DEF RevenueInv, TierTypeOK, TierFresh, Proceeds, Keeping, Writes, Busy, UsesTier
<1>4. Credits' = Credits /\ \A d \in Credits : tierCopy'[d] = tierCopy[d]
  BY <1>1 DEF RevenueInv, TierTypeOK, Credits, Proceeds, Keeping, UsesTier
<1>5. Owed' = Owed
  BY <1>4, OwedKept
<1>6. RevenueIsTrue'
  BY <1>5, RevenueIs DEF RevenueInv, Keeping, Writes
<1> QED
  BY <1>2, <1>3, <1>6 DEF RevenueInv

\* cancelTier and the end of a period leave the revenue alone.
LEMMA ApartKeeps == ASSUME RevenueInv, Apart PROVE RevenueInv'
<1>1. TierTypeOK' /\ TierFresh'
  BY DEF RevenueInv, TierTypeOK, TierFresh, Apart, Busy, UsesTier
<1>2. Credits' = Credits /\ \A d \in Credits : tierCopy'[d] = tierCopy[d]
  BY DEF Credits, Apart
<1>3. Owed' = Owed
  BY <1>2, OwedKept
<1>4. RevenueIsTrue'
  BY <1>3, RevenueIs DEF RevenueInv, Apart
<1> QED
  BY <1>1, <1>4 DEF RevenueInv

\* A write that moves money or saves the tier: the others' copies are old now.
LEMMA OthersAreOld ==
    ASSUME TierTypeOK, NEW c \in SubCalls, NEW l \in Stages, Writes(c), Proceeds(c, l),
           l \in UsesTier => l = "credit" /\ tier' = tier /\ stage[c] = "renew"
    PROVE  TierFresh => TierFresh'
BY DEF TierTypeOK, TierFresh, Writes, Proceeds, Busy, UsesTier

\* A payment moves from income to the revenue, or to what is still to be credited
\* and from there to the revenue.
LEMMA EarningKeeps ==
    ASSUME RevenueInv, NEW c \in SubCalls, Earning(c) PROVE RevenueInv'
<1> USE DEF RevenueInv
<1>1. tier \in TierRow /\ tierCopy[c] \in TierRow
  BY DEF TierTypeOK
<1>2. overlap' = "no" => overlap = "no" /\ c \notin old
  BY Zenon DEF Earning, CommitSubscribe, RenewSubscription, CreditRenewal, UpdateTier, Writes
<1>3. overlap' = "no" /\ stage[c] \in UsesTier => tierCopy[c].revenue = tier.revenue
  BY <1>2 DEF TierFresh
<1>4. CASE CommitSubscribe(c)
  <2>1. [tier EXCEPT !.count = @ + 1, !.revenue = tierCopy[c].revenue + tierCopy[c].price] \in TierRow
    <3>1. tier.count + 1 \in Nat /\ tierCopy[c].revenue + tierCopy[c].price \in Nat
      BY <1>1 DEF TierRow
    <3> HIDE DEF RevenueInv
    <3> QED
      BY <1>1, <3>1, Zenon DEF TierRow
  <2>2. TierTypeOK'
    <3>1. tierCopy[c].price \in Nat
      BY <1>1 DEF TierRow
    <3> QED
      BY <1>4, <2>1, <3>1, NoTierIsRow DEF TierTypeOK, CommitSubscribe, PaymentVerified, Proceeds,
         Stages
  <2>3. TierFresh'
    BY <1>4, OthersAreOld DEF CommitSubscribe, Stages, UsesTier
  <2>4. Credits' = Credits /\ \A d \in Credits : tierCopy'[d] = tierCopy[d]
    BY <1>4 DEF TierTypeOK, Credits, Proceeds, CommitSubscribe
  <2>3a. tierCopy \in [SubCalls -> TierRow] /\ Credits \in SUBSET SubCalls
    BY DEF TierTypeOK, Credits
  <2>5. Owed' = Owed /\ Owed \in Nat
    BY <2>4, OwedKept, OwedWithout, <2>3a DEF Owed
  <2>6. tier'.revenue = tierCopy[c].revenue + tierCopy[c].price
    BY <1>1, <1>4 DEF CommitSubscribe, TierRow
  <2>7. income' = income + tierCopy[c].price /\ stage[c] \in UsesTier
    BY <1>4 DEF CommitSubscribe, PaymentVerified, UsesTier
  <2>8. tierCopy[c].price \in Nat /\ tier.revenue \in Nat /\ income \in Nat
    BY <1>1, ZenonT(30) DEF TierRow, TierTypeOK
  <2>9. overlap' = "no" => income' = tier'.revenue + Owed'
    BY <1>2, <1>3, <2>5, <2>6, <2>7, <2>8, RevenueIs
  <2> QED
    BY <2>2, <2>3, <2>9, RevenueIs
<1>5. CASE RenewSubscription(c)
  <2>1. tierCopy[c].price \in Nat /\ tier.revenue \in Nat /\ income \in Nat
    BY <1>1 DEF TierRow, TierTypeOK
  <2>2. income' = income + tierCopy[c].price /\ UNCHANGED <<tier, tierCopy>> /\ stage[c] = "renew"
    BY <1>5 DEF RenewSubscription, PaymentVerified, Proceeds, UsesTier, TierTypeOK
  <2>3. TierTypeOK'
    BY <1>5, <2>1, <2>2 DEF TierTypeOK, RenewSubscription, Proceeds, Stages
  <2>4. TierFresh'
    BY <1>5, OthersAreOld DEF RenewSubscription, Stages, UsesTier
  <2>5. c \in Credits' /\ Credits' \ {c} = Credits
    BY <1>5 DEF RenewSubscription, Proceeds, Credits, TierTypeOK
  <2>6. Owed' = tierCopy[c].price + Owed /\ Owed \in Nat
    <3>1. tierCopy \in [SubCalls -> TierRow] /\ Credits \in SUBSET SubCalls /\ Credits' \in SUBSET SubCalls
      BY DEF TierTypeOK, Credits
    <3>2. Owed' = SumOf(PricesIn(tierCopy), Credits')
      BY <2>2 DEF Owed, PricesIn
    <3> QED
      BY <3>1, <3>2, <2>5, OwedWithout DEF Owed
  <2>7. overlap' = "no" => income' = tier'.revenue + Owed'
    BY <1>2, <2>1, <2>2, <2>6, RevenueIs
  <2> QED
    BY <2>3, <2>4, <2>7, RevenueIs
<1>6. CASE CreditRenewal(c)
  <2>1. [tier EXCEPT !.revenue = tierCopy[c].revenue + tierCopy[c].price] \in TierRow
    BY <1>1 DEF TierRow
  <2>2. TierTypeOK'
    BY <1>6, <2>1, NoTierIsRow DEF TierTypeOK, CreditRenewal, Proceeds, Stages
  <2>3. TierFresh'
    BY <1>6, OthersAreOld DEF CreditRenewal, Stages, UsesTier
  <2>4. c \in Credits /\ Credits' = Credits \ {c} /\ \A d \in Credits' : tierCopy'[d] = tierCopy[d]
    BY <1>6 DEF CreditRenewal, Proceeds, Credits, TierTypeOK
  <2>5. Owed = tierCopy[c].price + Owed' /\ Owed' \in Nat
    <3>1. Credits' \in SUBSET SubCalls /\ IsFiniteSet(Credits')
      BY SubAssumption, FS_Subset DEF Credits
    <3>2. \A d \in Credits' : PricesIn(tierCopy')[d] = PricesIn(tierCopy)[d]
      BY <2>4, <3>1 DEF PricesIn
    <3>3. SumOf(PricesIn(tierCopy'), Credits') = SumOf(PricesIn(tierCopy), Credits')
      BY <3>1, <3>2, SumOfSame
    <3>4. Owed' = SumOf(PricesIn(tierCopy'), Credits')
      BY DEF Owed, PricesIn
    <3>5. tierCopy \in [SubCalls -> TierRow] /\ Credits \in SUBSET SubCalls
      BY DEF TierTypeOK, Credits
    <3> QED
      BY <2>4, <3>1, <3>3, <3>4, <3>5, OwedWithout DEF Owed
  <2>6. tier'.revenue = tierCopy[c].revenue + tierCopy[c].price /\ income' = income
    BY <1>1, <1>6 DEF CreditRenewal, TierRow
  <2>7. tierCopy[c].price \in Nat /\ tier.revenue \in Nat /\ income \in Nat /\ stage[c] \in UsesTier
    BY <1>1, <1>6 DEF TierRow, TierTypeOK, CreditRenewal, UsesTier
  <2>8. overlap' = "no" => income' = tier'.revenue + Owed'
    BY <1>2, <1>3, <2>5, <2>6, <2>7, RevenueIs
  <2> QED
    BY <2>2, <2>3, <2>8, RevenueIs
<1>7. CASE UpdateTier(c)
  <2>1. PICK p \in Prices, a \in {"yes", "no"} : tier' = [tierCopy[c] EXCEPT !.price = p, !.active = a]
    BY <1>7, Zenon DEF UpdateTier
  <2>2. tier' \in TierRow /\ tier'.revenue = tierCopy[c].revenue
    BY <1>1, <2>1, SubAssumption, Zenon DEF TierRow
  <2>3. TierTypeOK'
    BY <1>7, <2>2, NoTierIsRow DEF TierTypeOK, UpdateTier, Proceeds, Stages
  <2>4. TierFresh'
    BY <1>7, OthersAreOld DEF UpdateTier, Stages, UsesTier
  <2>5. Credits' = Credits /\ \A d \in Credits : tierCopy'[d] = tierCopy[d]
    BY <1>7 DEF TierTypeOK, Credits, Proceeds, UpdateTier
  <2>6. Owed' = Owed
    BY <2>5, OwedKept
  <2>7. income' = income /\ stage[c] \in UsesTier
    BY <1>7 DEF UpdateTier, UsesTier
  <2>8. overlap' = "no" => income' = tier'.revenue + Owed'
    BY <1>2, <1>3, <2>2, <2>6, <2>7, RevenueIs
  <2> QED
    BY <2>3, <2>4, <2>8, RevenueIs
<1> QED
  BY <1>4, <1>5, <1>6, <1>7 DEF Earning

\* RevenueIsTrue: until a call has written from an old copy, the tier's revenue and
\* what renewals have still to credit add up to the payments verified, for any
\* number of calls, subscriptions and prices.
THEOREM RevenueAddsUp == SubSpec => []RevenueIsTrue
<1>1. SubInit => RevenueInv
  <2> SUFFICES ASSUME SubInit PROVE RevenueInv
    OBVIOUS
  <2>1. tier \in TierRow /\ tier.revenue = 0 /\ income = 0
    <3>1. PICK p \in Prices : tier = [active |-> "yes", price |-> p, count |-> 0, revenue |-> 0]
      BY DEF SubInit
    <3> QED
      BY <3>1, SubAssumption DEF SubInit, TierRow
  <2>2. TierTypeOK /\ TierFresh
    BY <2>1, NoTierIsRow DEF SubInit, TierTypeOK, TierFresh, Stages, UsesTier
  <2>3. Credits = {}
    BY DEF SubInit, Credits
  <2>4. Owed = 0
    BY <2>3, SumOfNone DEF Owed
  <2> QED
    BY <2>1, <2>2, <2>4, RevenueIs DEF RevenueInv
<1>2. RevenueInv /\ [SubNext]_subVars => RevenueInv'
  <2> SUFFICES ASSUME RevenueInv, [SubNext]_subVars PROVE RevenueInv'
    OBVIOUS
  <2>1. Apart \/ \E c \in SubCalls : Reading(c) \/ Keeping(c) \/ Earning(c)
    BY KindsOfStep DEF RevenueInv
  <2> QED
    BY <2>1, ReadingKeeps, KeepingKeeps, ApartKeeps, EarningKeeps
<1>3. RevenueInv => RevenueIsTrue
  BY DEF RevenueInv
<1> QED
  BY <1>1, <1>2, <1>3, PTL DEF SubSpec

-----------------------------------------------------------------------------
(* The circuit breaker *)

\* The inductive invariant of the circuit.
BreakerInv == BreakerTypeOK /\ ProbesBounded

\* The probes at the dependency can be counted.
LEMMA ProbesFinite == IsFiniteSet(Probes) /\ Cardinality(Probes) \in Nat
BY BreakerCallsAssumption, FS_Subset, FS_CardinalityType DEF Probes

\* A circuit begins CLOSED, with no probe.
LEMMA BreakerInitial == BreakerInit => BreakerInv
<1>. SUFFICES ASSUME BreakerInit PROVE BreakerInv
  OBVIOUS
<1>1. BreakerTypeOK
  BY BreakerAssumption DEF BreakerInit, BreakerTypeOK, NewCircuit, CircuitStats, CircuitStates,
     NoCall,
     BreakerCall
<1>2. Probes = {}
  BY DEF BreakerInit, Probes, NoCall
<1>. QED  BY <1>1, <1>2, FS_EmptySet, BreakerAssumption DEF BreakerInv, ProbesBounded,
   BreakerInit, NewCircuit

\* Only the start and the end of a probe touch the count: not the opening, half-opening
\* or closing of the circuit.
LEMMA CountUntouched ==
    ASSUME NEW k \in CircuitStats
    PROVE  /\ OnSuccess(k) \in CircuitStats /\ OnSuccess(k).probesInFlight = k.probesInFlight
           /\ OnFailure(k) \in CircuitStats /\ OnFailure(k).probesInFlight = k.probesInFlight
<1>1. /\ FailureThreshold \in Nat /\ 0 \in 0..FailureThreshold
      /\ k.successes \in Nat /\ k.successes + 1 \in Nat
  BY BreakerAssumption DEF CircuitStats
<1>2. OnSuccess(k) \in CircuitStats /\ OnSuccess(k).probesInFlight = k.probesInFlight
  BY <1>1, Zenon DEF OnSuccess, CircuitStats, CircuitStates
<1>. DEFINE failing == [k EXCEPT !.failures = IF @ < FailureThreshold THEN @ + 1 ELSE @]
<1>3. failing \in CircuitStats /\ failing.probesInFlight = k.probesInFlight
  <2>1. (IF k.failures < FailureThreshold THEN k.failures + 1 ELSE k.failures) \in 0..FailureThreshold
    BY <1>1 DEF CircuitStats
  <2>. QED  BY <2>1 DEF CircuitStats
<1>4. OnFailure(k) = IF k.state = "HALF_OPEN"
                     THEN [failing EXCEPT !.state = "OPEN", !.successes = 0, !.rested = FALSE]
                     ELSE IF failing.failures >= FailureThreshold
                          THEN [failing EXCEPT !.state = "OPEN", !.rested = FALSE]
                          ELSE failing
  BY DEF OnFailure
<1>. HIDE DEF failing
<1>5. OnFailure(k) \in CircuitStats /\ OnFailure(k).probesInFlight = k.probesInFlight
  <2>1. CASE k.state = "HALF_OPEN"
    <3>1. OnFailure(k) = [failing EXCEPT !.state = "OPEN", !.successes = 0, !.rested = FALSE]
      BY <1>4, <2>1
    <3>2. OnFailure(k) \in CircuitStats
      <4>. DEFINE F == 0..FailureThreshold
      <4>1. CircuitStats = [state : CircuitStates, failures : F, successes : Nat,
                            probesInFlight : Nat, rested : BOOLEAN]
        BY DEF CircuitStats
      <4>2. "OPEN" \in CircuitStates /\ 0 \in Nat
        BY DEF CircuitStates
      <4>. HIDE DEF F
      <4>. QED  BY <1>3, <3>1, <4>1, <4>2, Zenon
    <3>3. OnFailure(k).probesInFlight = failing.probesInFlight
      BY <1>3, <3>1 DEF CircuitStats
    <3>. QED  BY <1>3, <3>2, <3>3
  <2>2. CASE k.state # "HALF_OPEN" /\ failing.failures >= FailureThreshold
    BY <1>3, <1>4, <2>2, ZenonT(30) DEF CircuitStats, CircuitStates
  <2>3. CASE k.state # "HALF_OPEN" /\ ~(failing.failures >= FailureThreshold)
    BY <1>3, <1>4, <2>3
  <2>. QED  BY <2>1, <2>2, <2>3
<1>. QED  BY <1>2, <1>5

\* The answer of a call gives back exactly the slot it took.
LEMMA SettlingPreserves ==
    ASSUME BreakerInv, NEW c \in BreakerCalls, flight[c].at = "calling",
           NEW k \in CircuitStats, k.probesInFlight = circuit.probesInFlight,
           Settles(c, SlotFreed(c, k))
    PROVE  BreakerInv'
<1>1. /\ flight' = [flight EXCEPT ![c] = NoCall] /\ NoCall \in BreakerCall
      /\ flight \in [BreakerCalls -> BreakerCall] /\ resets' = resets
  BY DEF Settles, BreakerInv, BreakerTypeOK, NoCall, BreakerCall
<1>2. Probes' = Probes \ {c}
  BY <1>1 DEF Probes, NoCall
<1>3. Cardinality(Probes) \in Nat /\ IsFiniteSet(Probes) /\ circuit.probesInFlight = Cardinality(Probes)
  BY ProbesFinite DEF BreakerInv, ProbesBounded
<1>4. CASE c \in Probes
  <2>1. flight[c].probe /\ ~flight[c].detached
    BY <1>4 DEF Probes
  <2>2. Cardinality(Probes') = Cardinality(Probes) - 1
    BY <1>2, <1>3, <1>4, FS_RemoveElement, Zenon
  <2>3. Cardinality(Probes) > 0
    <3>1. Cardinality(Probes) # 0
      BY <1>3, <1>4, FS_EmptySet, Zenon
    <3>. QED  BY <1>3, <3>1
  <2>4. circuit' = [k EXCEPT !.probesInFlight = k.probesInFlight - 1]
    BY <1>3, <2>1, <2>3 DEF Settles, SlotFreed
  <2>5. circuit' \in CircuitStats /\ circuit'.probesInFlight = Cardinality(Probes) - 1
    BY <1>3, <2>3, <2>4 DEF CircuitStats
  <2>. QED  BY <1>1, <1>3, <2>2, <2>5, BreakerAssumption DEF BreakerInv, BreakerTypeOK, ProbesBounded
<1>5. CASE c \notin Probes
  <2>1. Probes' = Probes
    BY <1>2, <1>5
  <2>2. ~flight[c].probe \/ flight[c].detached
    BY <1>5 DEF Probes
  <2>3. circuit' \in {circuit, k}
    BY <2>2 DEF Settles, SlotFreed
  <2>. QED  BY <1>1, <1>3, <2>1, <2>3 DEF BreakerInv, BreakerTypeOK, ProbesBounded
<1>. QED  BY <1>4, <1>5

\* A call that is let through takes a slot if it is a probe.
LEMMA CallThroughPreserves ==
    ASSUME BreakerInv, NEW c \in BreakerCalls, CallThrough(c)
    PROVE  BreakerInv'
<1>1. Admitting \in CircuitStats /\ Admitting.probesInFlight = circuit.probesInFlight
  BY DEF Admitting, BreakerInv, BreakerTypeOK, CircuitStats, CircuitStates
<1>. DEFINE probe == Admitting.state = "HALF_OPEN"
<1>2. /\ flight' = [flight EXCEPT ![c] = [at |-> "calling", probe |-> probe, detached |-> FALSE]]
      /\ flight \in [BreakerCalls -> BreakerCall] /\ resets' = resets /\ flight[c].at = "idle"
      /\ [at |-> "calling", probe |-> probe, detached |-> FALSE] \in BreakerCall
  BY DEF CallThrough, BreakerInv, BreakerTypeOK, BreakerCall
<1>3. Cardinality(Probes) \in Nat /\ IsFiniteSet(Probes) /\ circuit.probesInFlight = Cardinality(Probes)
  BY ProbesFinite DEF BreakerInv, ProbesBounded
<1>4. c \notin Probes
  BY <1>2 DEF Probes
<1>5. CASE probe
  <2>1. Probes' = Probes \cup {c}
    BY <1>2, <1>5, Zenon DEF Probes
  <2>2. Cardinality(Probes') = Cardinality(Probes) + 1
    BY <1>3, <1>4, <2>1, FS_AddElement, ZenonT(30)
  <2>3. /\ circuit' = [Admitting EXCEPT !.probesInFlight = Admitting.probesInFlight + 1]
        /\ Admitting.probesInFlight < HalfOpenMaxProbes
    BY <1>5 DEF CallThrough
  <2>4. circuit' \in CircuitStats /\ circuit'.probesInFlight = Cardinality(Probes) + 1
    BY <1>1, <1>3, <2>3 DEF CircuitStats
  <2>. QED  BY <1>1, <1>2, <1>3, <2>2, <2>3, <2>4, BreakerAssumption
            DEF BreakerInv, BreakerTypeOK, ProbesBounded
<1>6. CASE ~probe
  <2>1. Probes' = Probes
    BY <1>2, <1>4, <1>6, Zenon DEF Probes
  <2>2. circuit' = Admitting
    BY <1>1, <1>6 DEF CallThrough, CircuitStats
  <2>. QED  BY <1>1, <1>2, <1>3, <2>1, <2>2 DEF BreakerInv, BreakerTypeOK, ProbesBounded
<1>. QED  BY <1>5, <1>6

\* reset detaches the calls under way from the count, which begins anew.
LEMMA ResetPreserves == BreakerInv /\ Reset => BreakerInv'
<1>. SUFFICES ASSUME BreakerInv, Reset PROVE BreakerInv'
  OBVIOUS
<1>1. Probes' = {}
  BY DEF Reset, Probes, BreakerInv, BreakerTypeOK, BreakerCall
<1>2. flight' \in [BreakerCalls -> BreakerCall] /\ resets' \in 0..MaxResets
  <2>1. \A c \in BreakerCalls : flight[c] \in BreakerCall /\ [flight[c] EXCEPT !.detached = TRUE] \in BreakerCall
    BY Zenon DEF BreakerInv, BreakerTypeOK, BreakerCall
  <2>2. flight' \in [BreakerCalls -> BreakerCall]
    BY <2>1 DEF Reset
  <2>3. resets' \in 0..MaxResets
    BY BreakerAssumption DEF Reset, BreakerInv, BreakerTypeOK
  <2>. QED  BY <2>2, <2>3
<1>3. circuit' \in CircuitStats /\ circuit'.probesInFlight = 0
  BY BreakerAssumption DEF Reset, NewCircuit, CircuitStats, CircuitStates
<1>. QED  BY <1>1, <1>2, <1>3, FS_EmptySet, BreakerAssumption DEF BreakerInv, BreakerTypeOK,
   ProbesBounded

\* Every step keeps the count exact.
LEMMA BreakerStep == BreakerInv /\ [BreakerNext]_breakerVars => BreakerInv'
<1>. SUFFICES ASSUME BreakerInv, [BreakerNext]_breakerVars PROVE BreakerInv'
  OBVIOUS
<1>1. circuit \in CircuitStats
  BY DEF BreakerInv, BreakerTypeOK
<1>2. ASSUME NEW c \in BreakerCalls, CallThrough(c) PROVE BreakerInv'
  BY <1>2, CallThroughPreserves
<1>3. ASSUME NEW c \in BreakerCalls, CallRejected(c) PROVE BreakerInv'
  <2>1. Admitting \in CircuitStats /\ Admitting.probesInFlight = circuit.probesInFlight
    BY <1>1 DEF Admitting, CircuitStats, CircuitStates
  <2>2. Probes' = Probes
    BY <1>3 DEF CallRejected, Probes
  <2>. QED  BY <1>3, <2>1, <2>2 DEF CallRejected, BreakerInv, BreakerTypeOK, ProbesBounded
<1>4. ASSUME NEW c \in BreakerCalls, CallSucceeds(c) PROVE BreakerInv'
  BY <1>1, <1>4, CountUntouched, SettlingPreserves, ZenonT(30) DEF CallSucceeds
<1>5. ASSUME NEW c \in BreakerCalls, CallFails(c) PROVE BreakerInv'
  BY <1>1, <1>5, CountUntouched, SettlingPreserves DEF CallFails
<1>6. CASE Reset
  BY <1>6, ResetPreserves
<1>7. CASE RecoveryTimePasses
  <2>1. Probes' = Probes
    BY <1>7 DEF RecoveryTimePasses, Probes
  <2>2. circuit' \in CircuitStats /\ circuit'.probesInFlight = circuit.probesInFlight
    BY <1>1, <1>7, Zenon DEF RecoveryTimePasses, CircuitStats
  <2>. QED  BY <1>7, <2>1, <2>2 DEF RecoveryTimePasses, BreakerInv, BreakerTypeOK, ProbesBounded
<1>8. CASE UNCHANGED breakerVars
  BY <1>8 DEF breakerVars, BreakerInv, BreakerTypeOK, ProbesBounded, Probes
<1>. QED
  BY <1>2, <1>3, <1>4, <1>5, <1>6, <1>7, <1>8 DEF BreakerNext, CallerStep

\* For any number of concurrent calls, any thresholds and any number of openings: at most
\* halfOpenMaxProbes probes are at the dependency, and no slot is lost or given back twice.
THEOREM ProbesStayBounded == BreakerSpec => []ProbesBounded
<1>1. BreakerInv => ProbesBounded
  BY DEF BreakerInv
<1>. QED  BY <1>1, BreakerInitial, BreakerStep, PTL DEF BreakerSpec

\* No circuit holds on to successes outside a recovery, and none has enough of them.
Anew(k) == k.successes < SuccessThreshold /\ (k.state # "HALF_OPEN" => k.successes = 0)

\* A slot given back changes neither the state nor the successes.
LEMMA SlotKeepsState ==
    ASSUME NEW k \in CircuitStats, NEW c
    PROVE  SlotFreed(c, k).state = k.state /\ SlotFreed(c, k).successes = k.successes
BY DEF SlotFreed, CircuitStats

\* What onSuccess makes of state and successes.
LEMMA SuccessMoves ==
    ASSUME NEW k \in CircuitStats
    PROVE  /\ k.state # "HALF_OPEN" =>
                 OnSuccess(k).state = k.state /\ OnSuccess(k).successes = k.successes
           /\ k.state = "HALF_OPEN" /\ k.successes + 1 < SuccessThreshold =>
                 OnSuccess(k).state = "HALF_OPEN" /\ OnSuccess(k).successes = k.successes + 1
           /\ k.state = "HALF_OPEN" /\ ~(k.successes + 1 < SuccessThreshold) =>
                 OnSuccess(k).state = "CLOSED" /\ OnSuccess(k).successes = 0
<1>1. CASE k.state # "HALF_OPEN"
  <2>1. OnSuccess(k) = [k EXCEPT !.failures = 0]
    BY <1>1 DEF OnSuccess
  <2>. QED  BY <1>1, <2>1 DEF CircuitStats
<1>2. CASE k.state = "HALF_OPEN" /\ k.successes + 1 < SuccessThreshold
  <2>1. OnSuccess(k) = [k EXCEPT !.failures = 0, !.successes = @ + 1]
    BY <1>2 DEF OnSuccess
  <2>. QED  BY <1>2, <2>1 DEF CircuitStats
<1>3. CASE k.state = "HALF_OPEN" /\ ~(k.successes + 1 < SuccessThreshold)
  <2>1. OnSuccess(k) = [k EXCEPT !.failures = 0, !.successes = 0, !.state = "CLOSED"]
    BY <1>3 DEF OnSuccess
  <2>. QED  BY <1>3, <2>1 DEF CircuitStats
<1>. QED  BY <1>1, <1>2, <1>3

\* What onFailure makes of them.
LEMMA FailureMoves ==
    ASSUME NEW k \in CircuitStats
    PROVE  /\ k.state = "HALF_OPEN" => OnFailure(k).state = "OPEN" /\ OnFailure(k).successes = 0
           /\ k.state # "HALF_OPEN" =>
                 OnFailure(k).state \in {k.state, "OPEN"} /\ OnFailure(k).successes = k.successes
<1>. DEFINE counted == [k EXCEPT !.failures = IF @ < FailureThreshold THEN @ + 1 ELSE @]
<1>1. /\ counted.successes = k.successes /\ counted.state = k.state
      /\ DOMAIN counted = {"state", "failures", "successes", "probesInFlight", "rested"}
      /\ counted = [x \in DOMAIN counted |-> counted[x]]
  BY DEF CircuitStats
<1>2. OnFailure(k) = IF k.state = "HALF_OPEN"
                     THEN [counted EXCEPT !.state = "OPEN", !.successes = 0, !.rested = FALSE]
                     ELSE IF counted.failures >= FailureThreshold
                          THEN [counted EXCEPT !.state = "OPEN", !.rested = FALSE]
                          ELSE counted
  BY DEF OnFailure
<1>. HIDE DEF counted
<1>. QED  BY <1>1, <1>2

\* The state and the successes after a call has been answered.
LEMMA Answered ==
    ASSUME BreakerInv, NEW c \in BreakerCalls
    PROVE  /\ CallSucceeds(c) =>
                 \/ circuit' = circuit
                 \/ /\ circuit'.state = OnSuccess(circuit).state
                    /\ circuit'.successes = OnSuccess(circuit).successes
           /\ CallFails(c) =>
                 \/ circuit' = circuit
                 \/ /\ circuit'.state = OnFailure(circuit).state
                    /\ circuit'.successes = OnFailure(circuit).successes
<1>1. circuit \in CircuitStats /\ OnSuccess(circuit) \in CircuitStats /\ OnFailure(circuit) \in CircuitStats
  BY CountUntouched DEF BreakerInv, BreakerTypeOK
<1>2. CallSucceeds(c) => circuit' = circuit \/ circuit' = SlotFreed(c, OnSuccess(circuit))
  BY DEF CallSucceeds, Settles
<1>3. CallFails(c) => circuit' = circuit \/ circuit' = SlotFreed(c, OnFailure(circuit))
  BY DEF CallFails, Settles
<1>. QED  BY <1>1, <1>2, <1>3, SlotKeepsState

\* The other steps of a call change the state of a circuit that rested, to HALF_OPEN.
LEMMA Admitted ==
    ASSUME BreakerInv, NEW c \in BreakerCalls, CallThrough(c) \/ CallRejected(c)
    PROVE  /\ circuit'.successes = circuit.successes
           /\ circuit'.state = circuit.state \/ circuit'.state = "HALF_OPEN"
           /\ circuit.state = "HALF_OPEN" => circuit'.state = "HALF_OPEN"
<1>1. circuit \in CircuitStats
  BY DEF BreakerInv, BreakerTypeOK
<1>2. /\ Admitting.successes = circuit.successes
      /\ Admitting.state = circuit.state \/ Admitting.state = "HALF_OPEN"
      /\ circuit.state = "HALF_OPEN" => Admitting.state = "HALF_OPEN"
  BY <1>1 DEF Admitting, CircuitStats
<1>3. circuit'.successes = Admitting.successes /\ circuit'.state = Admitting.state
  BY <1>1 DEF CallThrough, CallRejected, Admitting, CircuitStats
<1>. QED  BY <1>2, <1>3

\* Every step leaves no successes behind.
LEMMA AnewKept ==
    ASSUME BreakerInv, Anew(circuit), [BreakerNext]_breakerVars PROVE Anew(circuit')
<1>1. circuit \in CircuitStats
  BY DEF BreakerInv, BreakerTypeOK
<1>2. ASSUME NEW c \in BreakerCalls, CallThrough(c) \/ CallRejected(c) PROVE Anew(circuit')
  BY <1>2, Admitted DEF Anew
<1>3. ASSUME NEW c \in BreakerCalls, CallSucceeds(c) PROVE Anew(circuit')
  BY <1>1, <1>3, Answered, SuccessMoves, BreakerAssumption DEF Anew
<1>4. ASSUME NEW c \in BreakerCalls, CallFails(c) PROVE Anew(circuit')
  BY <1>1, <1>4, Answered, FailureMoves, BreakerAssumption DEF Anew
<1>5. CASE Reset
  BY <1>5, BreakerAssumption DEF Reset, NewCircuit, Anew
<1>6. CASE RecoveryTimePasses \/ UNCHANGED breakerVars
  BY <1>1, <1>6 DEF RecoveryTimePasses, breakerVars, Anew, CircuitStats
<1>. QED
  BY <1>2, <1>3, <1>4, <1>5, <1>6, Zenon DEF BreakerNext, CallerStep

\* What a step of a circuit may do to the successes of a recovery.
Recovers ==
    /\ circuit.state # "HALF_OPEN" /\ circuit'.state = "HALF_OPEN" => circuit'.successes = 0
    /\ circuit'.successes > circuit.successes =>
          /\ circuit.state = "HALF_OPEN" /\ circuit'.successes = circuit.successes + 1
          /\ \E c \in BreakerCalls : CallSucceeds(c)
    /\ circuit.state = "HALF_OPEN" /\ circuit'.state = "CLOSED" =>
          \/ Reset
          \/ /\ circuit.successes + 1 = SuccessThreshold
             /\ \E c \in BreakerCalls : CallSucceeds(c)

\* RecoveryTakesSuccesses: for any thresholds and any number of calls, openings and
\* resets, a circuit closes again only after successThreshold successes counted since
\* it became HALF_OPEN, or by a manual reset.
THEOREM RecoveriesTakeSuccesses == BreakerSpec => RecoveryTakesSuccesses
<1>1. BreakerInit => Anew(circuit)
  BY BreakerAssumption DEF BreakerInit, NewCircuit, Anew
<1>2. BreakerInv /\ Anew(circuit) /\ [BreakerNext]_breakerVars => Anew(circuit)'
  BY AnewKept DEF Anew
<1>3. ASSUME BreakerInv, Anew(circuit), [BreakerNext]_breakerVars PROVE [Recovers]_breakerVars
  <2>. SUFFICES ASSUME BreakerNext PROVE Recovers
    BY <1>3
  <2>1. circuit \in CircuitStats /\ circuit.successes \in Nat /\ SuccessThreshold \in Nat
    BY <1>3, BreakerAssumption DEF BreakerInv, BreakerTypeOK, CircuitStats
  <2>2. ASSUME NEW c \in BreakerCalls, CallThrough(c) \/ CallRejected(c) PROVE Recovers
    BY <1>3, <2>1, <2>2, Admitted DEF Recovers, Anew
  <2>3. ASSUME NEW c \in BreakerCalls, CallSucceeds(c) PROVE Recovers
    BY <1>3, <2>1, <2>3, Answered, SuccessMoves DEF Recovers, Anew
  <2>4. ASSUME NEW c \in BreakerCalls, CallFails(c) PROVE Recovers
    BY <1>3, <2>1, <2>4, Answered, FailureMoves DEF Recovers, Anew
  <2>5. CASE Reset
    BY <2>1, <2>5 DEF Reset, NewCircuit, Recovers
  <2>6. CASE RecoveryTimePasses
    BY <2>1, <2>6 DEF RecoveryTimePasses, Recovers, CircuitStats
  <2>. QED
    BY <2>2, <2>3, <2>4, <2>5, <2>6, Zenon DEF BreakerNext, CallerStep
<1>4. [][Recovers]_breakerVars => RecoveryTakesSuccesses
  BY PTL DEF Recovers, RecoveryTakesSuccesses
<1>. QED  BY <1>1, <1>2, <1>3, <1>4, BreakerInitial, BreakerStep, PTL DEF BreakerSpec
=============================================================================
