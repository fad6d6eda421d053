----------------------------- MODULE WebhookProofs -----------------------------
(***************************************************************************)
(* Proofs about webhooks: the endpoint of WebhookEndpoint, for any number  *)
(* of concurrent calls; and the deliveries of WebhookDelivery, for any     *)
(* number of dispatches, requests and jobs.                                *)
(***************************************************************************)
EXTENDS WebhookEndpoint, WebhookDelivery, WellFoundedInduction, TLAPS

-----------------------------------------------------------------------------
(* Webhook endpoints *)

\* The row of an endpoint, a call in flight, and their types.
HookRow == [there : {"yes", "no"}, url : HookUrls \cup {NoUrl}, active : {"yes", "no"},
            verified : {"yes", "no"}, pending : HookUrls \cup {NoUrl}, expires : Nat,
            hash : [url : HookUrls \cup {NoUrl}, token : Nat]]
\* What a call is about to do.
HookJob == [step : {"idle", "save", "issue", "send", "confirm", "remove"},
            url : HookUrls \cup {NoUrl}, token : Nat, active : {"keep", "yes", "no"}]

\* Types of the endpoint, the calls and the tokens.
HookTypeOK ==
    /\ hook \in HookRow
    /\ sent \subseteq [url : HookUrls \cup {NoUrl}, token : Tokens]
    /\ tokens \in 0..MaxTokens
    /\ job \in [HookCalls -> HookJob] /\ seen \in [HookCalls -> HookRow]
    /\ submitted \subseteq Tokens /\ redeemed \in [Tokens -> 0..2]

\* The owner of the URL gave back a token sent there.
Proven(u) == \E d \in sent : d.url = u /\ d.token \in submitted

\* A row that is switched on or verified, in the table or in a copy that may be saved
\* over it, names a proven URL.
ProvenInv ==
    /\ hook.active = "yes" \/ hook.verified = "yes" => Proven(hook.url)
    /\ \A c \in HookCalls :
          /\ seen[c].active = "yes" \/ seen[c].verified = "yes" => Proven(seen[c].url)
          /\ job[c].step = "save" /\ job[c].active = "yes" => seen[c].verified = "yes"
          /\ job[c].step = "confirm" =>
                \E d \in sent : d.token = job[c].token /\ d.token \in submitted

\* The hash is of the last token of the row: no edit brings an older one back, and the
\* token it hashes went, or will go, to the URL it hashes.
HashInv ==
    /\ hook.hash.token <= tokens
    /\ \A d \in sent : d.token <= tokens /\ (d.token = hook.hash.token => d.url = hook.hash.url)
    /\ \A c \in HookCalls : job[c].step = "send" =>
          /\ job[c].token \in 1..tokens
          /\ job[c].token = hook.hash.token => job[c].url = hook.hash.url

\* A hash that stands was not redeemed.
RedeemInv ==
    /\ \A t \in Tokens : t > tokens \/ t = hook.hash.token => redeemed[t] = 0
    /\ TokenIsUsedOnce

\* The inductive invariant of the endpoint.
HookInv == HookTypeOK /\ ProvenInv /\ HashInv /\ RedeemInv

\* It holds of an endpoint that does not exist yet.
LEMMA HookInitially == HookInit => HookInv
BY TokenAssumption DEF HookInit, HookInv, HookTypeOK, HookRow, HookJob, NoRow, NoJob, Tokens,
   ProvenInv, HashInv, RedeemInv, TokenIsUsedOnce

\* The copy of a call that has loaded nothing.
LEMMA NoRowType == NoRow \in HookRow /\ NoJob \in HookJob
BY DEF NoRow, HookRow, NoJob, HookJob

\* Types.
LEMMA HookTypeOKKept == ASSUME HookInv, [HookNext]_hookVars PROVE HookTypeOK'
<1> USE TokenAssumption DEF HookInv, HookTypeOK, Tokens, NoUrl
<1>1. ASSUME NEW c \in HookCalls, Register(c) PROVE HookTypeOK'
  <2>1. PICK u \in HookUrls : /\ hook' = [NoRow EXCEPT !.there = "yes", !.url = u]
                             /\ GoOn(c, [NoJob EXCEPT !.step = "issue", !.url = u])
    BY <1>1, Zenon DEF Register
  <2>2. hook' \in HookRow
    BY <2>1, ZenonT(30) DEF HookRow, NoRow
  <2>3. [NoJob EXCEPT !.step = "issue", !.url = u] \in HookJob
    BY Zenon DEF HookJob, NoJob
  <2> QED
    BY <1>1, <2>1, <2>2, <2>3, NoRowType DEF Register, GoOn
<1>2. ASSUME NEW c \in HookCalls, StartUpdate(c) PROVE HookTypeOK'
  <2>1. PICK u \in HookUrls \cup {NoUrl}, a \in {"keep", "yes", "no"} :
          ReadHook(c, [NoJob EXCEPT !.step = "save", !.active = a,
                                    !.url = IF u = hook.url THEN NoUrl ELSE u])
    BY <1>2, Zenon DEF StartUpdate
  <2>2. [NoJob EXCEPT !.step = "save", !.active = a, !.url = IF u = hook.url THEN NoUrl ELSE u] \in HookJob
    BY Zenon DEF HookJob, NoJob
  <2> QED
    BY <1>2, <2>1, <2>2 DEF StartUpdate, ReadHook
<1>3. ASSUME NEW c \in HookCalls, SaveUpdate(c) PROVE HookTypeOK'
  <2> DEFINE row == [seen[c] EXCEPT !.active = IF job[c].active = "keep" THEN @ ELSE job[c].active]
             kept == IF hook.there = "yes" THEN hook.hash ELSE NoRow.hash
             next == IF job[c].url = NoUrl THEN NoJob ELSE [NoJob EXCEPT !.step = "issue", !.url = job[c].url]
  <2>1. hook \in HookRow /\ seen[c] \in HookRow /\ job[c] \in HookJob
    OBVIOUS
  <2>2. row \in HookRow
    BY <2>1, ZenonT(30) DEF HookRow, HookJob
  <2>3. kept \in [url : HookUrls \cup {NoUrl}, token : Nat]
    BY <2>1 DEF HookRow, NoRow
  <2>4. [row EXCEPT !.hash = kept] \in HookRow
    <3> HIDE DEF row, kept, HookInv
    <3> QED
      BY <2>2, <2>3 DEF HookRow
  <2>5. next \in HookJob
    BY <2>1, Zenon DEF HookJob, NoJob
  <2>6. hook' = [row EXCEPT !.hash = kept] /\ GoOn(c, next)
    BY <1>3 DEF SaveUpdate, SaveHook
  <2> HIDE DEF row, kept, next
  <2> QED
    BY <1>3, <2>4, <2>5, <2>6, NoRowType DEF SaveUpdate, GoOn
<1>4. ASSUME NEW c \in HookCalls, Resend(c) PROVE HookTypeOK'
  BY <1>4, Zenon DEF Resend, GoOn, NoJob, NoRow, HookRow, HookJob
<1>5. ASSUME NEW c \in HookCalls, IssueToken(c) PROVE HookTypeOK'
  <2>1. tokens' \in Tokens
    BY <1>5 DEF IssueToken
  <2>2. hook' \in HookRow
    <3>1. job[c].url \in HookUrls \cup {NoUrl}
      BY DEF HookJob
    <3>2. VerificationHash(job[c].url, tokens') \in [url : HookUrls \cup {NoUrl}, token : Nat]
      BY <2>1, <3>1 DEF VerificationHash
    <3>3. hook \in HookRow /\ tokens' \in Nat
      BY <2>1
    <3>4. [hook EXCEPT !.pending = job[c].url, !.expires = tokens',
                       !.hash = VerificationHash(job[c].url, tokens')] \in HookRow
      <4> HIDE DEF HookInv
      <4> QED
        BY <3>1, <3>2, <3>3, Zenon DEF HookRow
    <3> QED
      BY <1>5, <3>3, <3>4 DEF IssueToken
  <2>3. [job[c] EXCEPT !.step = "send", !.token = tokens'] \in HookJob
    <3>1. job[c] \in HookJob /\ tokens' \in Nat
      BY <2>1
    <3> HIDE DEF HookInv
    <3> QED
      BY <3>1, ZenonT(30) DEF HookJob
  <2> QED
    BY <1>5, <2>1, <2>2, <2>3, NoRowType DEF IssueToken, GoOn
<1>6. ASSUME NEW c \in HookCalls, SendChallenge(c) PROVE HookTypeOK'
  <2>1. [url |-> job[c].url, token |-> job[c].token] \in [url : HookUrls \cup {NoUrl}, token : Tokens]
    BY <1>6 DEF SendChallenge, HookJob, HashInv
  <2> QED
    BY <1>6, <2>1, NoRowType DEF SendChallenge, GoOn
<1>7. ASSUME NEW c \in HookCalls, StartVerify(c) PROVE HookTypeOK'
  <2>1. PICK d \in sent : /\ ReadHook(c, [NoJob EXCEPT !.step = "confirm", !.token = d.token])
                         /\ submitted' = submitted \cup {d.token}
    BY <1>7, Zenon DEF StartVerify
  <2>2. d.token \in Tokens
    OBVIOUS
  <2>3. [NoJob EXCEPT !.step = "confirm", !.token = d.token] \in HookJob
    <3>1. d.token \in Nat
      BY <2>2
    <3> HIDE DEF HookInv
    <3> QED
      BY <3>1, Zenon DEF HookJob, NoJob
  <2> QED
    BY <1>7, <2>1, <2>2, <2>3 DEF StartVerify, ReadHook
<1>8. ASSUME NEW c \in HookCalls, ConfirmUrl(c) PROVE HookTypeOK'
  <2>1. hook' \in HookRow
    <3>1. seen[c].pending \in HookUrls \cup {NoUrl}
      BY DEF HookRow
    <3>2. [NoRow EXCEPT !.there = "yes", !.url = seen[c].pending, !.active = "yes",
                        !.verified = "yes"] \in HookRow
      BY <3>1, Zenon DEF HookRow, NoRow
    <3> QED
      BY <1>8, <3>2 DEF ConfirmUrl
  <2>2. redeemed' \in [Tokens -> 0..2]
    BY <1>8 DEF ConfirmUrl
  <2> QED
    BY <1>8, <2>1, <2>2, NoRowType DEF ConfirmUrl, GoOn
<1>9. ASSUME NEW c \in HookCalls, StartRemove(c) PROVE HookTypeOK'
  BY <1>9, ZenonT(30) DEF StartRemove, ReadHook, NoJob, HookRow, HookJob, NoRow
<1>10. ASSUME NEW c \in HookCalls, RemoveHook(c) PROVE HookTypeOK'
  BY <1>10 DEF RemoveHook, GoOn, NoJob, NoRow, HookRow, HookJob
<1>11. CASE TokenExpires
  BY <1>11 DEF TokenExpires, HookRow, HookJob, NoRow, NoJob
<1>12. CASE FailuresDisable
  BY <1>12, Zenon DEF FailuresDisable, HookRow, HookJob, NoRow, NoJob
<1>13. CASE UNCHANGED hookVars
  BY <1>13 DEF hookVars, HookRow, HookJob, NoRow, NoJob
<1> QED
  BY <1>1, <1>2, <1>3, <1>4, <1>5, <1>6, <1>7, <1>8, <1>9, <1>10, <1>11, <1>12, <1>13 DEF HookNext

\* No step, and no save of an old copy, switches an unproven URL on.
LEMMA ProvenInvKept == ASSUME HookInv, [HookNext]_hookVars PROVE ProvenInv'
<1> USE TokenAssumption DEF HookInv, HookTypeOK, Tokens, NoUrl
<1>1. ASSUME NEW c \in HookCalls, Register(c) PROVE ProvenInv'
  BY <1>1 DEF Register, NoJob, NoRow, GoOn, ProvenInv, Proven, HashInv, HookRow, HookJob
<1>2. ASSUME NEW c \in HookCalls, StartUpdate(c) PROVE ProvenInv'
  BY <1>2 DEF StartUpdate, NoJob, ReadHook, ProvenInv, Proven, HashInv, HookRow, HookJob, NoRow
<1>3. ASSUME NEW c \in HookCalls, SaveUpdate(c) PROVE ProvenInv'
  BY <1>3 DEF SaveUpdate, SaveHook, GoOn, NoJob, NoRow, ProvenInv, Proven, HashInv, HookRow, HookJob
<1>4. ASSUME NEW c \in HookCalls, Resend(c) PROVE ProvenInv'
  BY <1>4 DEF Resend, GoOn, NoJob, NoRow, ProvenInv, Proven, HashInv, HookRow, HookJob
<1>5. ASSUME NEW c \in HookCalls, IssueToken(c) PROVE ProvenInv'
  <2>1. UNCHANGED <<hook.active, hook.verified, hook.url>> /\ sent' = sent /\ submitted' = submitted
    BY <1>5, ZenonT(30) DEF IssueToken, HookRow
  <2>2. /\ job' = [job EXCEPT ![c] = [job[c] EXCEPT !.step = "send", !.token = tokens']]
        /\ seen' = [seen EXCEPT ![c] = NoRow]
    BY <1>5 DEF IssueToken, GoOn
  <2>3. job'[c].step = "send" /\ seen'[c].active = "no" /\ seen'[c].verified = "no"
    BY <2>2 DEF HookJob, NoRow
  <2> QED
    BY <2>1, <2>2, <2>3 DEF ProvenInv, Proven
<1>6. ASSUME NEW c \in HookCalls, SendChallenge(c) PROVE ProvenInv'
  BY <1>6 DEF SendChallenge, GoOn, NoJob, NoRow, ProvenInv, Proven, HashInv, HookRow, HookJob
<1>7. ASSUME NEW c \in HookCalls, StartVerify(c) PROVE ProvenInv'
  BY <1>7 DEF StartVerify, ReadHook, NoJob, ProvenInv, Proven, HashInv, HookRow, HookJob, NoRow
<1>8. ASSUME NEW c \in HookCalls, ConfirmUrl(c) PROVE ProvenInv'
  <2>1. /\ job' = [job EXCEPT ![c] = NoJob] /\ seen' = [seen EXCEPT ![c] = NoRow]
        /\ sent' = sent /\ submitted' = submitted /\ job[c].step = "confirm"
    BY <1>8 DEF ConfirmUrl, GoOn
  <2>2. CASE hook' = hook
    BY <2>1, <2>2 DEF ProvenInv, Proven, NoJob, NoRow
  <2>3. CASE hook' # hook
    <3>1. /\ hook.hash = VerificationHash(seen[c].pending, job[c].token)
          /\ hook'.url = seen[c].pending
      BY <1>8, <2>3, Zenon DEF ConfirmUrl, NoRow
    <3>2. PICK d \in sent : d.token = job[c].token /\ d.token \in submitted
      BY <2>1 DEF ProvenInv
    <3>3. d.url = hook'.url
      BY <3>1, <3>2 DEF HashInv, VerificationHash
    <3> QED
      BY <2>1, <3>2, <3>3 DEF ProvenInv, Proven, NoJob, NoRow
  <2> QED
    BY <2>2, <2>3
<1>9. ASSUME NEW c \in HookCalls, StartRemove(c) PROVE ProvenInv'
  BY <1>9 DEF StartRemove, ReadHook, NoJob, ProvenInv, Proven, HashInv, HookRow, HookJob, NoRow
<1>10. ASSUME NEW c \in HookCalls, RemoveHook(c) PROVE ProvenInv'
  BY <1>10 DEF RemoveHook, GoOn, NoJob, NoRow, ProvenInv, Proven, HashInv, HookRow, HookJob
<1>11. CASE TokenExpires
  BY <1>11 DEF TokenExpires, ProvenInv, Proven, HashInv, HookRow, HookJob, NoRow
<1>12. CASE FailuresDisable
  BY <1>12 DEF FailuresDisable, ProvenInv, Proven, HashInv, HookRow, HookJob, NoRow
<1>13. CASE UNCHANGED hookVars
  BY <1>13 DEF hookVars, ProvenInv, Proven, HashInv, HookRow, HookJob, NoRow
<1> QED
  BY <1>1, <1>2, <1>3, <1>4, <1>5, <1>6, <1>7, <1>8, <1>9, <1>10, <1>11, <1>12, <1>13 DEF HookNext

\* The hash stays that of the last token.
LEMMA HashInvKept == ASSUME HookInv, [HookNext]_hookVars PROVE HashInv'
<1> USE TokenAssumption DEF HookInv, HookTypeOK, Tokens, NoUrl
<1>1. ASSUME NEW c \in HookCalls, Register(c) PROVE HashInv'
  BY <1>1 DEF Register, NoJob, NoRow, GoOn, HashInv, HookRow, HookJob
<1>2. ASSUME NEW c \in HookCalls, StartUpdate(c) PROVE HashInv'
  BY <1>2 DEF StartUpdate, NoJob, ReadHook, HashInv, HookRow, HookJob, NoRow
<1>3. ASSUME NEW c \in HookCalls, SaveUpdate(c) PROVE HashInv'
  BY <1>3 DEF SaveUpdate, SaveHook, GoOn, NoJob, NoRow, HashInv, HookRow, HookJob
<1>4. ASSUME NEW c \in HookCalls, Resend(c) PROVE HashInv'
  BY <1>4 DEF Resend, GoOn, NoJob, NoRow, HashInv, HookRow, HookJob
<1>5. ASSUME NEW c \in HookCalls, IssueToken(c) PROVE HashInv'
  <2>1. /\ job' = [job EXCEPT ![c] = [job[c] EXCEPT !.step = "send", !.token = tokens']]
        /\ sent' = sent /\ tokens' = tokens + 1 /\ tokens \in Nat
    BY <1>5 DEF IssueToken, GoOn
  <2>2. job'[c].token = tokens' /\ job'[c].url = job[c].url
    BY <2>1 DEF HookJob
  <2>3. \/ hook'.hash = [url |-> job[c].url, token |-> tokens']
        \/ hook'.hash = hook.hash
    BY <1>5, Zenon DEF IssueToken, HookRow, VerificationHash
  <2>4. hook.hash.token \in Nat
    BY DEF HookRow
  <2> QED
    BY <2>1, <2>2, <2>3, <2>4 DEF HashInv
<1>6. ASSUME NEW c \in HookCalls, SendChallenge(c) PROVE HashInv'
  <2>1. sent' \subseteq sent \cup {[url |-> job[c].url, token |-> job[c].token]} /\ job[c].step = "send"
    BY <1>6 DEF SendChallenge
  <2>2. job' = [job EXCEPT ![c] = NoJob] /\ hook' = hook /\ tokens' = tokens
    BY <1>6 DEF SendChallenge, GoOn
  <2> QED
    BY <2>1, <2>2 DEF HashInv, NoJob
<1>7. ASSUME NEW c \in HookCalls, StartVerify(c) PROVE HashInv'
  BY <1>7 DEF StartVerify, ReadHook, NoJob, HashInv, HookRow, HookJob, NoRow
<1>8. ASSUME NEW c \in HookCalls, ConfirmUrl(c) PROVE HashInv'
  <2>1. /\ job' = [job EXCEPT ![c] = NoJob] /\ sent' = sent /\ tokens' = tokens
        /\ (hook' = hook \/ hook'.hash = [url |-> NoUrl, token |-> 0])
    BY <1>8, Zenon DEF ConfirmUrl, GoOn, NoRow
  <2> QED
    BY <2>1 DEF HashInv, NoJob
<1>9. ASSUME NEW c \in HookCalls, StartRemove(c) PROVE HashInv'
  BY <1>9 DEF StartRemove, ReadHook, NoJob, HashInv, HookRow, HookJob, NoRow
<1>10. ASSUME NEW c \in HookCalls, RemoveHook(c) PROVE HashInv'
  BY <1>10 DEF RemoveHook, GoOn, NoJob, NoRow, HashInv, HookRow, HookJob
<1>11. CASE TokenExpires
  BY <1>11 DEF TokenExpires, HashInv, HookRow, HookJob, NoRow
<1>12. CASE FailuresDisable
  BY <1>12 DEF FailuresDisable, HashInv, HookRow, HookJob, NoRow
<1>13. CASE UNCHANGED hookVars
  BY <1>13 DEF hookVars, HashInv, HookRow, HookJob, NoRow
<1> QED
  BY <1>1, <1>2, <1>3, <1>4, <1>5, <1>6, <1>7, <1>8, <1>9, <1>10, <1>11, <1>12, <1>13 DEF HookNext

\* A redeemed hash is cleared.
LEMMA RedeemInvKept == ASSUME HookInv, [HookNext]_hookVars PROVE RedeemInv'
<1> USE TokenAssumption DEF HookInv, HookTypeOK, Tokens, NoUrl
<1>1. ASSUME NEW c \in HookCalls, Register(c) PROVE RedeemInv'
  BY <1>1 DEF Register, NoJob, NoRow, GoOn, RedeemInv, TokenIsUsedOnce, HashInv, ProvenInv,
     HookRow, HookJob
<1>2. ASSUME NEW c \in HookCalls, StartUpdate(c) PROVE RedeemInv'
  BY <1>2 DEF StartUpdate, NoJob, ReadHook, RedeemInv, TokenIsUsedOnce, HashInv, ProvenInv,
     HookRow, HookJob, NoRow
<1>3. ASSUME NEW c \in HookCalls, SaveUpdate(c) PROVE RedeemInv'
  BY <1>3 DEF SaveUpdate, SaveHook, GoOn, NoJob, NoRow, RedeemInv, TokenIsUsedOnce, HashInv,
     ProvenInv, HookRow, HookJob
<1>4. ASSUME NEW c \in HookCalls, Resend(c) PROVE RedeemInv'
  BY <1>4 DEF Resend, GoOn, NoJob, NoRow, RedeemInv, TokenIsUsedOnce, HashInv, ProvenInv, HookRow,
     HookJob
<1>5. ASSUME NEW c \in HookCalls, IssueToken(c) PROVE RedeemInv'
  <2>1. tokens' = tokens + 1 /\ tokens \in Nat /\ redeemed' = redeemed
    BY <1>5 DEF IssueToken
  <2>2. hook'.hash.token \in {hook.hash.token, tokens'}
    <3>1. hook' = hook \/ hook'.hash = VerificationHash(job[c].url, tokens')
      BY <1>5, Zenon DEF IssueToken, HookRow
    <3> QED
      BY <3>1 DEF VerificationHash
  <2> QED
    BY <2>1, <2>2 DEF RedeemInv, TokenIsUsedOnce
<1>6. ASSUME NEW c \in HookCalls, SendChallenge(c) PROVE RedeemInv'
  BY <1>6 DEF SendChallenge, GoOn, NoJob, NoRow, RedeemInv, TokenIsUsedOnce, HashInv, ProvenInv,
     HookRow, HookJob
<1>7. ASSUME NEW c \in HookCalls, StartVerify(c) PROVE RedeemInv'
  BY <1>7 DEF StartVerify, ReadHook, NoJob, RedeemInv, TokenIsUsedOnce, HashInv, ProvenInv,
     HookRow, HookJob, NoRow
<1>8. ASSUME NEW c \in HookCalls, ConfirmUrl(c) PROVE RedeemInv'
  <2>1. CASE UNCHANGED <<hook, redeemed>>
    BY <1>8, <2>1 DEF ConfirmUrl, RedeemInv, TokenIsUsedOnce
  <2>2. CASE hook' # hook \/ redeemed' # redeemed
    <3> DEFINE t == job[c].token
    <3>1. /\ hook.hash.token = t /\ hook'.hash.token = 0 /\ tokens' = tokens
          /\ redeemed' = [redeemed EXCEPT ![t] = IF @ = 2 THEN 2 ELSE @ + 1]
      <4>1. /\ hook.hash = VerificationHash(seen[c].pending, t) /\ tokens' = tokens
            /\ redeemed' = [redeemed EXCEPT ![t] = IF @ = 2 THEN 2 ELSE @ + 1]
            /\ hook' = [NoRow EXCEPT !.there = "yes", !.url = seen[c].pending, !.active = "yes",
                                     !.verified = "yes"]
        BY <1>8, <2>2 DEF ConfirmUrl
      <4>2. hook'.hash.token = 0
        BY <4>1 DEF NoRow
      <4> QED
        BY <4>1, <4>2 DEF VerificationHash
    <3>2. t \in Tokens /\ t <= tokens
      BY <1>8 DEF ConfirmUrl, ProvenInv, HashInv
    <3>3. redeemed[t] = 0
      BY <3>1, <3>2 DEF RedeemInv
    <3> QED
      BY <3>1, <3>2, <3>3 DEF RedeemInv, TokenIsUsedOnce
  <2> QED
    BY <2>1, <2>2
<1>9. ASSUME NEW c \in HookCalls, StartRemove(c) PROVE RedeemInv'
  BY <1>9 DEF StartRemove, ReadHook, NoJob, RedeemInv, TokenIsUsedOnce, HashInv, ProvenInv,
     HookRow, HookJob, NoRow
<1>10. ASSUME NEW c \in HookCalls, RemoveHook(c) PROVE RedeemInv'
  BY <1>10 DEF RemoveHook, GoOn, NoJob, NoRow, RedeemInv, TokenIsUsedOnce, HashInv, ProvenInv,
     HookRow, HookJob
<1>11. CASE TokenExpires
  BY <1>11 DEF TokenExpires, RedeemInv, TokenIsUsedOnce, HashInv, ProvenInv, HookRow, HookJob, NoRow
<1>12. CASE FailuresDisable
  BY <1>12 DEF FailuresDisable, RedeemInv, TokenIsUsedOnce, HashInv, ProvenInv, HookRow, HookJob,
     NoRow
<1>13. CASE UNCHANGED hookVars
  BY <1>13 DEF hookVars, RedeemInv, TokenIsUsedOnce, HashInv, ProvenInv, HookRow, HookJob, NoRow
<1> QED
  BY <1>1, <1>2, <1>3, <1>4, <1>5, <1>6, <1>7, <1>8, <1>9, <1>10, <1>11, <1>12, <1>13 DEF HookNext

\* HookInv holds throughout.
LEMMA HookInvariance == HookSpec => []HookInv
<1>1. HookInv /\ [HookNext]_hookVars => HookInv'
  BY HookTypeOKKept, ProvenInvKept, HashInvKept, RedeemInvKept DEF HookInv
<1> QED
  BY <1>1, HookInitially, PTL DEF HookSpec

\* Only a URL whose owner gave back a token sent there is ever switched on, for any
\* number of URLs, tokens and concurrent edits, verifications and removals.
THEOREM UrlsAreProven == HookSpec => []ActiveUrlIsProven
<1>1. HookInv => ActiveUrlIsProven
  BY DEF HookInv, ProvenInv, Proven, ActiveUrlIsProven
<1> QED
  BY <1>1, HookInvariance, PTL

\* verifyEndpoint accepts a token once, whatever edits save back.
THEOREM TokensAreUsedOnce == HookSpec => []TokenIsUsedOnce
<1>1. HookInv => TokenIsUsedOnce
  BY DEF HookInv, RedeemInv
<1> QED
  BY <1>1, HookInvariance, PTL

-----------------------------------------------------------------------------
(* Webhook deliveries *)

\* The rows of a delivery and of an attempt.
DeliveryRecord ==
    [status : {"none", "pending", "failed", "success", "permanently_failed"}, attempts : Nat]

\* The steps of an attempt.
AttemptSteps == {"idle", "post", "delivered", "failed", "reset", "strike", "weigh", "disable"}
\* What an attempt knows.
AttemptRecord == [step : AttemptSteps, rec : 0..MaxDispatch, number : Nat]

\* Requests were sent for record r as often as number n says, or often enough.
Sent(n, r) == posts[r] >= n \/ posts[r] = MaxPosts

\* What a row says of record r is true: its attempts were sent, and it is given up
\* only after the last request.
Backed(d, r) == Sent(d.attempts, r) /\ (d.status = "permanently_failed" => posts[r] = MaxPosts)

\* Every row, in the table, in the reconciler's list or in the owner's hands, is backed by requests,
\* unless its enqueueing failed before anything was sent.
RecordInv ==
    /\ dispatch \in [step : {"save", "enqueue", "end", "dead letter"}, try : Deliveries]
    /\ record \in [Deliveries -> DeliveryRecord]
    /\ copies \in [Deliveries -> DeliveryRecord]
    /\ drafts \in [Deliveries -> DeliveryRecord]
    /\ listed \subseteq Deliveries
    /\ posts \in [Deliveries -> 0..MaxPosts]
    /\ \A r \in Deliveries \ unsent : 
          Backed(record[r], r) /\ Backed(copies[r], r) /\ Backed(drafts[r], r)

\* The number an attempt goes by counts the requests for its record: all of them
\* are sent, but for its own while it is about to be sent.
NumberInv(a) ==
    a.step # "idle" =>
        /\ a.rec \in Deliveries
        /\ a.rec \notin unsent => Sent(IF a.step = "post" THEN a.number - 1 ELSE a.number, a.rec)

\* The attempts of a job count requests; the attempt it is at is the next.
JobInv(j, a, n) ==
    j.rec \notin unsent =>
        /\ Sent(n, j.rec)
        /\ a.step # "idle" => a.rec = j.rec /\ a.number = n + 1

\* All attempts under way, and all jobs, count as they should.
DeliveryAttemptInv ==
    /\ jobTries \in [Jobs -> Nat]
    /\ attempt \in [Senders -> AttemptRecord]
    /\ \A s \in Senders : NumberInv(attempt[s])
    /\ \A j \in Jobs : JobInv(j, attempt[j], jobTries[j])

\* The inductive invariant of the deliveries.
DeliveryInv == RecordInv /\ DeliveryAttemptInv

\* The reconciler's oldest row is one it listed.
LEMMA OldestListed == ASSUME listed \subseteq Nat, listed # {} PROVE Oldest \in listed
<1>1. PICK x \in listed : \A y \in listed : ~(<<y, x>> \in OpToRel(<, Nat))
  BY NatLessThanWellFounded, WFMin, Zenon
<1>2. ASSUME NEW y \in listed PROVE x <= y
  <2>1. SUFFICES ASSUME y < x PROVE FALSE
    OBVIOUS
  <2>2. <<y, x>> \in Nat \X Nat /\ <<y, x>>[1] < <<y, x>>[2]
    BY <2>1
  <2>3. <<y, x>> \in {ss \in Nat \X Nat : ss[1] < ss[2]}
    BY <2>2
  <2>4. <<y, x>> \in OpToRel(<, Nat)
    BY <2>3 DEF OpToRel
  <2> QED
    BY <1>1, <2>4, Zenon
<1> QED
  BY <1>2, Zenon DEF Oldest

\* A job names a record, and a job is not the reconciler.
LEMMA JobFields ==
    ASSUME NEW j \in Jobs PROVE j.rec \in Deliveries /\ j \in Senders /\ j # Reconciler
<1>1. PICK r \in Deliveries, k \in {"auto", "manual"} : j = [rec |-> r, kind |-> k]
  BY DEF Jobs
<1>2. j.rec = r /\ j.kind = k
  BY <1>1
<1>3. j # Reconciler
  <2>1. Reconciler.kind = "reconciler"
    BY DEF Reconciler
  <2> QED
    BY <1>2, <2>1
<1> QED
  BY <1>2, <1>3 DEF Senders

\* The numbers of requests and attempts.
LEMMA Bounds == MaxPosts \in Nat /\ MaxDispatch \in Nat /\ 1 \in Deliveries
BY DeliveryAssumption DEF Deliveries

\* Types of the rows.
LEMMA RecordTypes ==
    ASSUME RecordInv
    PROVE  /\ posts \in [Deliveries -> 0..MaxPosts] /\ listed \subseteq Deliveries
           /\ record \in [Deliveries -> DeliveryRecord] /\ copies \in [Deliveries -> DeliveryRecord]
           /\ drafts \in [Deliveries -> DeliveryRecord]
           /\ dispatch.try \in Deliveries
BY Zenon DEF RecordInv

\* A record that does not exist is backed.
LEMMA NoRecordBacked ==
    ASSUME RecordInv PROVE NoRecord \in DeliveryRecord /\ \A r \in Deliveries : Backed(NoRecord, r)
<1>1. \A r \in Deliveries : posts[r] >= 0
  BY RecordTypes, Bounds
<1> QED
  BY <1>1 DEF NoRecord, DeliveryRecord, Backed, Sent

\* The oldest row is one of the rows.
LEMMA OldestIsRecord == ASSUME RecordInv, listed # {} PROVE Oldest \in Deliveries
<1>1. listed \subseteq Nat
  BY RecordTypes DEF Deliveries
<1> QED
  BY <1>1, OldestListed, RecordTypes, Zenon

\* It holds before the first dispatch.
LEMMA DeliveryInitially == DeliveryInit => DeliveryInv
<1> SUFFICES ASSUME DeliveryInit PROVE DeliveryInv
  OBVIOUS
<1> USE DeliveryAssumption DEF DeliveryInit, Sent, NoRecord, Rest, Deliveries
<1>1. RecordInv
  BY DEF RecordInv, Backed, DeliveryRecord
<1>2. DeliveryAttemptInv
  <2>1. ASSUME NEW j \in Jobs PROVE JobInv(j, attempt[j], jobTries[j])
    BY JobFields DEF JobInv
  <2>2. Rest \in AttemptRecord /\ Rest.step = "idle"
    BY DEF AttemptRecord, AttemptSteps
  <2> HIDE DEF Rest
  <2> QED
    BY <2>1, <2>2 DEF DeliveryAttemptInv, NumberInv
<1> QED
  BY <1>1, <1>2 DEF DeliveryInv

-----------------------------------------------------------------------------
(* The records *)

\* Steps that write no row keep what the rows say.
LEMMA RecordsUntouched ==
    ASSUME RecordInv, UNCHANGED <<dispatch, record, copies, drafts, listed, posts, unsent>>
    PROVE  RecordInv'
BY Zenon DEF RecordInv, Backed, Sent

\* More requests, or more records that are excused, leave what was true true.
LEMMA SentStays ==
    ASSUME RecordInv, posts' \in [Deliveries -> 0..MaxPosts],
           \A r \in Deliveries : posts'[r] >= posts[r]
    PROVE  \A r \in Deliveries, n \in Int : Sent(n, r) => Sent(n, r)'
<1>1. posts \in [Deliveries -> 0..MaxPosts]
  BY RecordTypes
<1> QED
  BY <1>1, Bounds DEF Sent

\* A request that is sent is counted before its attempt goes on.
LEMMA PostCounted ==
    ASSUME RecordInv, NEW r \in Deliveries,
           posts' = [posts EXCEPT ![r] = IF @ < MaxPosts THEN @ + 1 ELSE @]
    PROVE  /\ posts' \in [Deliveries -> 0..MaxPosts] /\ \A q \in Deliveries : posts'[q] >= posts[q]
           /\ posts'[r] = posts[r] + 1 \/ posts'[r] = MaxPosts
<1> DEFINE n == IF posts[r] < MaxPosts THEN posts[r] + 1 ELSE posts[r]
<1>1. posts \in [Deliveries -> 0..MaxPosts]
  BY RecordTypes
<1>2. n \in 0..MaxPosts /\ n >= posts[r] /\ (n = posts[r] + 1 \/ n = MaxPosts)
  BY <1>1, Bounds
<1>3. posts' = [posts EXCEPT ![r] = n]
  OBVIOUS
<1> HIDE DEF n
<1>4. posts' \in [Deliveries -> 0..MaxPosts] /\ posts'[r] = n
  BY <1>1, <1>2, <1>3
<1>5. ASSUME NEW q \in Deliveries PROVE posts'[q] >= posts[q]
  <2>1. posts[q] \in Int /\ (q # r => posts'[q] = posts[q])
    BY <1>1, <1>3
  <2> QED
    BY <1>2, <1>4, <2>1
<1> QED
  BY <1>2, <1>4, <1>5

\* Every step keeps RecordInv.
LEMMA RecordKept ==
    ASSUME DeliveryInv, [DeliveryNext]_deliveryVars PROVE RecordInv'
<1> USE DEF DeliveryInv, senderVars, sweepVars, manualVars
<1>1. CASE \/ EnqueueDelivery \/ SwitchWebhook \/ UNCHANGED deliveryVars
           \/ \E j \in Jobs : TakeJob(j)
           \/ \E s \in Senders : \/ ResetStrikes(s) \/ SuccessNotRecorded(s) \/ CountStrike(s)
                                 \/ WeighStrikes(s) \/ DisableWebhook(s) \/ FailureNotRecorded(s)
           \/ \E r \in Deliveries : EnqueueManually(r)
  <2>1. CASE EnqueueDelivery
    BY <2>1, Zenon DEF EnqueueDelivery, RecordInv, Backed, Sent
  <2>2. CASE ~EnqueueDelivery
    <3>1. UNCHANGED <<dispatch, record, copies, drafts, listed, posts, unsent>>
      BY <1>1, <2>2, Zenon DEF SwitchWebhook, TakeJob, ResetStrikes, SuccessNotRecorded, CountStrike,
         WeighStrikes, DisableWebhook, FailureNotRecorded, EnqueueManually, deliveryVars
    <3> QED
      BY <3>1, RecordsUntouched
  <2> QED
    BY <2>1, <2>2
<1>2. CASE DispatchFails
  <2>1. dispatch' \in [step : {"save", "enqueue", "end", "dead letter"}, try : Deliveries]
    <3>1. dispatch.try \in Deliveries /\ (dispatch.try # MaxDispatch => dispatch.try + 1 \in Deliveries)
      BY RecordTypes, Bounds DEF Deliveries
    <3> QED
      BY <1>2, <3>1, Zenon DEF DispatchFails, NextTry, RecordInv
  <2> QED
    BY <1>2, <2>1, Zenon DEF DispatchFails, RecordInv, Backed, Sent
<1>3. ASSUME NEW j \in Jobs, JobRefused(j) PROVE RecordInv'
  BY <1>3, Zenon DEF JobRefused, RecordInv, Backed, Sent
<1>4. CASE SaveRecord
  <2>1. PICK r \in Deliveries : record' = [record EXCEPT ![r].status = "pending"]
    BY <1>4, Zenon DEF SaveRecord, RecordInv
  <2>2. dispatch' \in [step : {"save", "enqueue", "end", "dead letter"}, try : Deliveries]
    BY <1>4, Zenon DEF SaveRecord, RecordInv
  <2>3. UNCHANGED <<copies, drafts, listed, posts, unsent>>
    BY <1>4 DEF SaveRecord
  <2>4. record' \in [Deliveries -> DeliveryRecord]
    BY <2>1, RecordTypes DEF DeliveryRecord
  <2>5. \A q \in Deliveries : /\ record'[q].attempts = record[q].attempts
                             /\ record'[q].status \in {record[q].status, "pending"}
    BY <2>1, RecordTypes DEF DeliveryRecord
  <2> QED
    BY <2>2, <2>3, <2>4, <2>5, ZenonT(30) DEF RecordInv, Backed, Sent
<1>5. ASSUME NEW s \in Senders, PostAttempt(s) PROVE RecordInv'
  <2>1. posts' \in [Deliveries -> 0..MaxPosts] /\ \A r \in Deliveries : posts'[r] >= posts[r]
    <3>1. attempt[s].rec \in Deliveries
      BY <1>5 DEF PostAttempt, DeliveryAttemptInv, NumberInv
    <3> QED
      BY <1>5, <3>1, PostCounted, Zenon DEF PostAttempt
  <2>2. \A r \in Deliveries, n \in Int : Sent(n, r) => Sent(n, r)'
    BY <2>1, SentStays
  <2>3. \A r \in Deliveries : posts[r] = MaxPosts => posts'[r] = MaxPosts
    BY <2>1, RecordTypes, Bounds
  <2>4. \A r \in Deliveries : /\ record[r].attempts \in Int /\ copies[r].attempts \in Int
                             /\ drafts[r].attempts \in Int
    BY RecordTypes DEF DeliveryRecord
  <2> QED
    BY <1>5, <2>1, <2>2, <2>3, <2>4, ZenonT(30) DEF PostAttempt, RecordInv, Backed
<1>6. ASSUME NEW s \in Senders, RecordDeliverySuccess(s) \/ RecordDeliveryFailure(s) PROVE RecordInv'
  <2>1. attempt[s] \in AttemptRecord /\ attempt[s].step \notin {"idle", "post"} /\ NumberInv(attempt[s])
    BY <1>6 DEF RecordDeliverySuccess, RecordDeliveryFailure, DeliveryAttemptInv
  <2> DEFINE r == attempt[s].rec
  <2>2. r \in Deliveries /\ attempt[s].number \in Nat /\ (r \notin unsent => Sent(attempt[s].number, r))
    BY <2>1 DEF NumberInv, AttemptRecord
  <2>3. PICK outcome \in {"success", "failed", "permanently_failed"} :
          /\ SaveAttempt(s, outcome)
          /\ outcome = "permanently_failed" => attempt[s].number >= MaxPosts
    BY <1>6, Zenon DEF RecordDeliverySuccess, RecordDeliveryFailure, LastPost
  <2> DEFINE d == [status |-> outcome, attempts |-> attempt[s].number]
  <2>4. record' = [record EXCEPT ![r] = d]
    BY <2>3, ZenonT(30) DEF SaveAttempt
  <2>5. r \notin unsent => Backed(d, r)
    <3>1. posts[r] \in 0..MaxPosts
      BY <2>2, RecordTypes
    <3> QED
      BY <2>2, <2>3, <3>1, Bounds, SMTT(30) DEF Backed, Sent
  <2>6. d \in DeliveryRecord
    BY <2>2, ZenonT(30) DEF DeliveryRecord
  <2>7. UNCHANGED <<dispatch, copies, drafts, listed, posts, unsent>>
    BY <1>6, Zenon DEF RecordDeliverySuccess, RecordDeliveryFailure
  <2> HIDE DEF d, r
  <2>8. record' \in [Deliveries -> DeliveryRecord]
    BY <2>4, <2>6, Zenon DEF RecordInv
  <2>9. \A q \in Deliveries \ unsent : Backed(record'[q], q)
    BY <2>2, <2>4, <2>5, Zenon DEF RecordInv
  <2> QED
    BY <2>7, <2>8, <2>9, Zenon DEF RecordInv, Backed, Sent
<1>7. ASSUME NEW s \in Senders, SenderDies(s) PROVE RecordInv'
  <2>1. CASE s \in Jobs
    BY <1>7, <2>1, RecordsUntouched DEF SenderDies
  <2>2. CASE s \notin Jobs
    <3>1. copies' = [r \in Deliveries |-> NoRecord] /\ listed' = {}
          /\ UNCHANGED <<dispatch, record, drafts, posts, unsent>>
      BY <1>7, <2>2 DEF SenderDies
    <3> HIDE DEF NoRecord
    <3> QED
      BY <3>1, NoRecordBacked, Zenon DEF RecordInv, Backed, Sent
  <2> QED
    BY <2>1, <2>2
<1>8. ASSUME NEW ready \in SUBSET Deliveries, FindCandidates(ready) PROVE RecordInv'
  <2>1. /\ copies' = [r \in Deliveries |-> IF r \in listed' THEN record[r] ELSE NoRecord]
        /\ listed' \subseteq Deliveries /\ UNCHANGED <<dispatch, record, drafts, posts, unsent>>
    BY <1>8, Zenon DEF FindCandidates
  <2> QED
    BY <2>1, NoRecordBacked, ZenonT(30) DEF RecordInv, Backed, Sent
<1>9. CASE SkipDelivered \/ RetryInPlace
  <2>1. Oldest \in Deliveries
    BY <1>9, OldestIsRecord, Zenon DEF SkipDelivered, RetryInPlace
  <2>2. /\ copies' = [copies EXCEPT ![Oldest] = NoRecord] /\ listed' \subseteq Deliveries
        /\ record' = [record EXCEPT ![Oldest] = copies[Oldest]] \/ record' = record
        /\ UNCHANGED <<dispatch, drafts, posts, unsent>>
    BY <1>9, Zenon DEF SkipDelivered, RetryInPlace, Done, RecordInv
  <2> HIDE DEF Oldest
  <2>3. NoRecord \in DeliveryRecord /\ \A r \in Deliveries : Backed(NoRecord, r)
    BY NoRecordBacked
  <2>4. record' \in [Deliveries -> DeliveryRecord] /\ copies' \in [Deliveries -> DeliveryRecord]
    BY <2>1, <2>2, <2>3, Zenon DEF RecordInv
  <2>5. \A r \in Deliveries \ unsent : Backed(record'[r], r) /\ Backed(copies'[r], r)
    BY <2>1, <2>2, <2>3, Zenon DEF RecordInv
  <2> QED
    BY <2>2, <2>4, <2>5, ZenonT(30) DEF RecordInv, Backed, Sent
<1>10. ASSUME NEW r \in Deliveries, RetryManually(r) PROVE RecordInv'
  <2> DEFINE d == [status |-> "pending", attempts |-> record[r].attempts]
  <2>1. drafts' = [drafts EXCEPT ![r] = d] /\ UNCHANGED <<dispatch, record, copies, listed, posts, unsent>>
    BY <1>10, Zenon DEF RetryManually
  <2>2. d \in DeliveryRecord /\ (r \notin unsent => Backed(d, r))
    BY RecordTypes DEF RecordInv, Backed, DeliveryRecord
  <2> HIDE DEF d
  <2>3. drafts' \in [Deliveries -> DeliveryRecord] /\ \A q \in Deliveries \ unsent : Backed(drafts'[q], q)
    BY <2>1, <2>2, Zenon DEF RecordInv
  <2> QED
    BY <2>1, <2>3, ZenonT(30) DEF RecordInv, Backed, Sent
<1>11. ASSUME NEW r \in Deliveries, SaveManually(r) PROVE RecordInv'
  <2>1. /\ drafts' = [drafts EXCEPT ![r] = NoRecord] /\ UNCHANGED <<dispatch, copies, listed, posts, unsent>>
        /\ record' = [record EXCEPT ![r] = drafts[r]] \/ record' = record
    BY <1>11, Zenon DEF SaveManually
  <2>2. NoRecord \in DeliveryRecord /\ \A q \in Deliveries : Backed(NoRecord, q)
    BY NoRecordBacked
  <2>3. record' \in [Deliveries -> DeliveryRecord] /\ drafts' \in [Deliveries -> DeliveryRecord]
    BY <2>1, <2>2, Zenon DEF RecordInv
  <2>4. \A q \in Deliveries \ unsent : Backed(record'[q], q) /\ Backed(drafts'[q], q)
    BY <2>1, <2>2, Zenon DEF RecordInv
  <2> QED
    BY <2>1, <2>3, <2>4, ZenonT(30) DEF RecordInv, Backed, Sent
<1> QED
  BY <1>1, <1>2, <1>3, <1>4, <1>5, <1>6, <1>7, <1>8, <1>9, <1>10, <1>11 DEF DeliveryNext, SenderStep

-----------------------------------------------------------------------------
(* The attempts *)

\* Steps of nobody's attempt keep the attempts.
LEMMA AttemptsUntouched ==
    ASSUME DeliveryAttemptInv, UNCHANGED <<attempt, jobTries, posts, unsent>>
    PROVE  DeliveryAttemptInv'
BY ZenonT(30) DEF DeliveryAttemptInv, NumberInv, JobInv, Sent

\* An attempt goes on, ends, or begins.
LEMMA AttemptMoves ==
    ASSUME DeliveryAttemptInv, NEW s \in Senders, NEW a \in AttemptRecord,
           attempt' = [attempt EXCEPT ![s] = a], UNCHANGED <<posts, unsent>>,
           NumberInv(a),
           jobTries' \in [Jobs -> Nat], \A j \in Jobs \ {s} : jobTries'[j] = jobTries[j],
           s \in Jobs => JobInv(s, a, jobTries'[s])
    PROVE  DeliveryAttemptInv'
<1>1. attempt' \in [Senders -> AttemptRecord]
  BY DEF DeliveryAttemptInv
<1>2. \A q \in Senders : NumberInv(attempt'[q])
  BY DEF DeliveryAttemptInv
<1>3. \A j \in Jobs : JobInv(j, attempt'[j], jobTries'[j])
  BY JobFields DEF DeliveryAttemptInv
<1> QED
  BY <1>1, <1>2, <1>3 DEF DeliveryAttemptInv, NumberInv, JobInv, Sent

\* To another step after the request.
LEMMA AttemptGoesOn ==
    ASSUME DeliveryAttemptInv, NEW s \in Senders, attempt[s].step \notin {"idle", "post"},
           NEW l \in AttemptSteps \ {"idle", "post"}, Step(s, l), UNCHANGED <<jobTries, posts, unsent>>
    PROVE  DeliveryAttemptInv'
<1> DEFINE a == [attempt[s] EXCEPT !.step = l]
<1>1. attempt[s] \in AttemptRecord
  BY DEF DeliveryAttemptInv
<1>2. a \in AttemptRecord /\ a.rec = attempt[s].rec /\ a.number = attempt[s].number /\ a.step = l
  BY <1>1 DEF AttemptRecord
<1>3. attempt' = [attempt EXCEPT ![s] = a]
  BY DEF Step
<1> HIDE DEF a
<1>4. NumberInv(a)
  BY <1>2, ZenonT(30) DEF DeliveryAttemptInv, NumberInv
<1>5. s \in Jobs => JobInv(s, a, jobTries'[s])
  BY <1>2 DEF DeliveryAttemptInv, JobInv
<1> QED
  BY <1>2, <1>3, <1>4, <1>5, AttemptMoves, Zenon DEF DeliveryAttemptInv

\* An attempt at rest.
LEMMA RestIsQuiet == Rest \in AttemptRecord /\ Rest.step = "idle"
BY DeliveryAssumption DEF Rest, AttemptRecord, AttemptSteps

\* To its end, without an answer from Bull's point of view.
LEMMA AttemptEnds ==
    ASSUME DeliveryAttemptInv, NEW s \in Senders, attempt' = [attempt EXCEPT ![s] = Rest],
           UNCHANGED <<jobTries, posts, unsent>>
    PROVE  DeliveryAttemptInv'
<1>1. NumberInv(Rest)
  BY RestIsQuiet DEF NumberInv
<1>2. s \in Jobs => JobInv(s, Rest, jobTries'[s])
  BY RestIsQuiet DEF DeliveryAttemptInv, JobInv
<1> QED
  BY <1>1, <1>2, RestIsQuiet, AttemptMoves, Zenon DEF DeliveryAttemptInv

\* To its end, counted by Bull.
LEMMA AttemptThrows ==
    ASSUME DeliveryAttemptInv, NEW s \in Senders, attempt[s].step \notin {"idle", "post"}, Throws(s),
           UNCHANGED <<posts, unsent>>
    PROVE  DeliveryAttemptInv'
<1>1. attempt' = [attempt EXCEPT ![s] = Rest]
  BY DEF Throws
<1>2. CASE s \notin Jobs
  BY <1>1, <1>2, AttemptEnds, Zenon DEF Throws
<1>3. CASE s \in Jobs
  <2>1. jobTries' = [jobTries EXCEPT ![s] = @ + 1]
    BY <1>3 DEF Throws, JobThrows
  <2>2. jobTries' \in [Jobs -> Nat] /\ \A j \in Jobs \ {s} : jobTries'[j] = jobTries[j]
    BY <2>1, <1>3 DEF DeliveryAttemptInv
  <2>3. NumberInv(attempt[s]) /\ JobInv(s, attempt[s], jobTries[s]) /\ jobTries'[s] = jobTries[s] + 1
    BY <1>3, <2>1, ZenonT(30) DEF DeliveryAttemptInv
  <2>4. JobInv(s, Rest, jobTries'[s]) /\ NumberInv(Rest)
    BY <2>3, RestIsQuiet DEF JobInv, NumberInv
  <2> QED
    BY <1>1, <2>2, <2>4, RestIsQuiet, AttemptMoves, ZenonT(30)
<1> QED
  BY <1>2, <1>3

\* Every step keeps the attempts' numbers.
LEMMA AttemptKept ==
    ASSUME DeliveryInv, [DeliveryNext]_deliveryVars PROVE DeliveryAttemptInv'
<1> USE DEF DeliveryInv, senderVars, sweepVars, manualVars
<1>1. CASE \/ SaveRecord \/ EnqueueDelivery \/ DispatchFails \/ SkipDelivered \/ SwitchWebhook
           \/ UNCHANGED deliveryVars
           \/ \E ready \in SUBSET Deliveries : FindCandidates(ready)
           \/ \E r \in Deliveries : RetryManually(r) \/ SaveManually(r) \/ EnqueueManually(r)
  <2>1. UNCHANGED <<attempt, jobTries, posts, unsent>>
    BY <1>1, Zenon DEF SaveRecord, EnqueueDelivery, DispatchFails, SkipDelivered, SwitchWebhook,
       deliveryVars, FindCandidates, RetryManually, SaveManually, EnqueueManually
  <2> QED
    BY <2>1, AttemptsUntouched
<1>2. ASSUME NEW j \in Jobs, TakeJob(j) PROVE DeliveryAttemptInv'
  <2> DEFINE a == [step |-> "post", rec |-> j.rec, number |-> jobTries[j] + 1]
  <2>1. j.rec \in Deliveries /\ j \in Senders /\ jobTries[j] \in Nat
    BY JobFields DEF DeliveryAttemptInv
  <2>2. a \in AttemptRecord
    BY <2>1, DeliveryAssumption DEF AttemptRecord, AttemptSteps, Deliveries
  <2>3. /\ a.step = "post" /\ a.rec = j.rec
        /\ a.number = jobTries[j] + 1 /\ a.number - 1 = jobTries[j]
    BY <2>1
  <2>4. attempt' = [attempt EXCEPT ![j] = a] /\ UNCHANGED <<jobTries, posts, unsent>>
    BY <1>2, ZenonT(30) DEF TakeJob
  <2> HIDE DEF a
  <2>5. NumberInv(a) /\ JobInv(j, a, jobTries'[j])
    BY <2>1, <2>3, <2>4 DEF DeliveryAttemptInv, NumberInv, JobInv
  <2> QED
    BY <2>1, <2>2, <2>4, <2>5, AttemptMoves, Zenon DEF DeliveryAttemptInv
<1>3. ASSUME NEW j \in Jobs, JobRefused(j) PROVE DeliveryAttemptInv'
  <2>1. /\ jobTries' = [jobTries EXCEPT ![j] = @ + 1] /\ unsent' = unsent \cup {j.rec}
        /\ UNCHANGED <<attempt, posts>>
    BY <1>3 DEF JobRefused, JobThrows
  <2>2. jobTries' \in [Jobs -> Nat]
    BY <2>1 DEF DeliveryAttemptInv
  <2>3. \A s \in Senders : NumberInv(attempt[s])'
    BY <2>1, ZenonT(30) DEF DeliveryAttemptInv, NumberInv, Sent
  <2>4. ASSUME NEW k \in Jobs PROVE JobInv(k, attempt[k], jobTries[k])'
    BY <2>1 DEF DeliveryAttemptInv, JobInv, Sent
  <2> QED
    BY <2>1, <2>2, <2>3, <2>4 DEF DeliveryAttemptInv
<1>4. ASSUME NEW s \in Senders, PostAttempt(s) PROVE DeliveryAttemptInv'
  <2>1. PICK l \in {"delivered", "failed"} : Step(s, l)
    BY <1>4 DEF PostAttempt
  <2> DEFINE a == [attempt[s] EXCEPT !.step = l]
             r == attempt[s].rec
  <2>2. attempt[s] \in AttemptRecord /\ attempt[s].step = "post" /\ NumberInv(attempt[s])
    BY <1>4 DEF PostAttempt, DeliveryAttemptInv
  <2>3. a \in AttemptRecord /\ a.rec = r /\ a.number = attempt[s].number /\ a.step = l /\ a.number \in Nat
    BY <2>2 DEF AttemptRecord, AttemptSteps
  <2>4. attempt' = [attempt EXCEPT ![s] = a] /\ UNCHANGED <<jobTries, unsent>>
    BY <1>4, <2>1, Zenon DEF PostAttempt, Step
  <2>5. r \in Deliveries /\ (r \notin unsent => Sent(a.number - 1, r))
    BY <2>2, <2>3, ZenonT(30) DEF NumberInv
  <2>6. posts' = [posts EXCEPT ![r] = IF @ < MaxPosts THEN @ + 1 ELSE @]
    BY <1>4 DEF PostAttempt
  <2> HIDE DEF a, r
  <2>7. /\ posts' \in [Deliveries -> 0..MaxPosts] /\ \A q \in Deliveries : posts'[q] >= posts[q]
        /\ posts'[r] = posts[r] + 1 \/ posts'[r] = MaxPosts
    BY <2>5, <2>6, PostCounted, Zenon
  <2>8. \A q \in Deliveries, n \in Int : Sent(n, q) => Sent(n, q)'
    BY <2>7, SentStays
  <2>9. r \notin unsent => posts'[r] >= a.number \/ posts'[r] = MaxPosts
    <3>1. posts[r] \in 0..MaxPosts
      BY <2>5, RecordTypes
    <3>2. posts'[r] \in 0..MaxPosts /\ posts'[r] >= posts[r]
      BY <2>5, <2>7
    <3> QED
      BY <2>3, <2>5, <2>7, <3>1, <3>2, Bounds DEF Sent
  <2>10. \A q \in Senders : NumberInv(attempt[q])'
    <3>1. attempt'[s] = a
      BY <2>4 DEF DeliveryAttemptInv
    <3>2. ASSUME NEW q \in Senders, q # s PROVE NumberInv(attempt[q])'
      <4>1. attempt'[q] = attempt[q] /\ NumberInv(attempt[q]) /\ attempt[q].number \in Nat
        BY <2>4, <3>2, ZenonT(30) DEF DeliveryAttemptInv, AttemptRecord
      <4> QED
        BY <2>4, <2>8, <4>1 DEF NumberInv
    <3>3. NumberInv(attempt[s])'
      BY <2>1, <2>3, <2>4, <2>5, <2>9, <3>1, SMTT(30) DEF NumberInv, Sent
    <3> QED
      BY <3>2, <3>3
  <2>11. ASSUME NEW j \in Jobs PROVE JobInv(j, attempt[j], jobTries[j])'
    <3>1. j \in Senders /\ j.rec \in Deliveries /\ jobTries[j] \in Nat /\ JobInv(j, attempt[j], jobTries[j])
      BY JobFields, ZenonT(30) DEF DeliveryAttemptInv
    <3>2. j.rec \notin unsent => Sent(jobTries[j], j.rec)'
      BY <2>4, <2>8, <3>1 DEF JobInv
    <3>3. attempt'[j].rec = attempt[j].rec /\ attempt'[j].number = attempt[j].number
          /\ (attempt'[j].step # "idle" => attempt[j].step # "idle")
      BY <2>2, <2>3, <2>4, <3>1, ZenonT(30) DEF DeliveryAttemptInv, r
    <3> QED
      BY <2>4, <3>1, <3>2, <3>3 DEF JobInv
  <2> QED
    BY <2>3, <2>4, <2>10, <2>11 DEF DeliveryAttemptInv
<1>5. ASSUME NEW s \in Senders,
             RecordDeliverySuccess(s) \/ SuccessNotRecorded(s) \/ CountStrike(s)
      PROVE  DeliveryAttemptInv'
  <2>1. \E l \in {"reset", "failed", "weigh"} : Step(s, l)
    BY <1>5, ZenonT(30) DEF RecordDeliverySuccess, SuccessNotRecorded, CountStrike
  <2>2. attempt[s].step \notin {"idle", "post"} /\ UNCHANGED <<jobTries, posts, unsent>>
    BY <1>5 DEF RecordDeliverySuccess, SuccessNotRecorded, CountStrike
  <2> QED
    BY <2>1, <2>2, AttemptGoesOn DEF AttemptSteps
<1>6. ASSUME NEW s \in Senders, RecordDeliveryFailure(s) \/ WeighStrikes(s) PROVE DeliveryAttemptInv'
  <2>1. attempt[s].step \notin {"idle", "post"} /\ UNCHANGED <<posts, unsent>>
    BY <1>6 DEF RecordDeliveryFailure, WeighStrikes
  <2>2. CASE Throws(s)
    BY <2>1, <2>2, AttemptThrows
  <2>3. CASE ~Throws(s)
    <3>1. UNCHANGED jobTries /\ \E l \in {"strike", "disable"} : Step(s, l)
      BY <1>6, <2>3 DEF RecordDeliveryFailure, WeighStrikes
    <3> QED
      BY <2>1, <3>1, AttemptGoesOn, ZenonT(30) DEF AttemptSteps
  <2> QED
    BY <2>2, <2>3, ZenonT(30)
<1>7. ASSUME NEW s \in Senders, DisableWebhook(s) \/ FailureNotRecorded(s) PROVE DeliveryAttemptInv'
  <2>1. attempt[s].step \notin {"idle", "post"} /\ Throws(s) /\ UNCHANGED <<posts, unsent>>
    BY <1>7, Zenon DEF DisableWebhook, FailureNotRecorded
  <2> QED
    BY <2>1, AttemptThrows
<1>8. ASSUME NEW s \in Senders, ResetStrikes(s) \/ SenderDies(s) PROVE DeliveryAttemptInv'
  <2>1. attempt' = [attempt EXCEPT ![s] = Rest] /\ UNCHANGED <<jobTries, posts, unsent>>
    BY <1>8 DEF ResetStrikes, SenderDies
  <2> QED
    BY <2>1, AttemptEnds, Zenon
<1>9. CASE RetryInPlace
  <2>1. Oldest \in Deliveries
    BY <1>9, OldestIsRecord, ZenonT(30) DEF RetryInPlace
  <2> DEFINE a == [step |-> "post", rec |-> Oldest, number |-> copies[Oldest].attempts + 1]
  <2>2. attempt' = [attempt EXCEPT ![Reconciler] = a] /\ UNCHANGED <<jobTries, posts, unsent>>
    BY <1>9 DEF RetryInPlace
  <2> HIDE DEF Oldest
  <2>3. copies[Oldest].attempts \in Nat /\ (Oldest \notin unsent => Sent(copies[Oldest].attempts, Oldest))
    BY <2>1, ZenonT(30) DEF RecordInv, DeliveryRecord, Backed
  <2>4. a \in AttemptRecord
    BY <2>1, <2>3, DeliveryAssumption DEF AttemptRecord, AttemptSteps, Deliveries
  <2>5. a.step = "post" /\ a.rec = Oldest /\ a.number - 1 = copies[Oldest].attempts
    BY <2>3
  <2> HIDE DEF a
  <2>6. NumberInv(a)
    BY <2>1, <2>3, <2>5 DEF NumberInv
  <2>7. Reconciler \in Senders /\ Reconciler \notin Jobs
    BY JobFields DEF Senders
  <2> QED
    BY <2>2, <2>4, <2>6, <2>7, AttemptMoves, ZenonT(30) DEF DeliveryAttemptInv
<1> QED
  BY <1>1, <1>2, <1>3, <1>4, <1>5, <1>6, <1>7, <1>8, <1>9 DEF DeliveryNext, SenderStep

\* DeliveryInv holds throughout.
LEMMA DeliveryInvariance == DeliverySpec => []DeliveryInv
<1>1. DeliveryInv /\ [DeliveryNext]_deliveryVars => DeliveryInv'
  BY RecordKept, AttemptKept DEF DeliveryInv
<1> QED
  BY <1>1, DeliveryInitially, PTL DEF DeliverySpec

\* GivenUpWasTried: a delivery is marked permanently_failed only after the last
\* of its requests, however jobs, manual retries and the reconciler interleave, for
\* any number of deliveries and requests.
THEOREM GivenUpRecordsWereTried == DeliverySpec => []GivenUpWasTried
<1>1. DeliveryInv => GivenUpWasTried
  <2> SUFFICES ASSUME DeliveryInv, NEW r \in Deliveries \ unsent,
                      record[r].status = "permanently_failed"
               PROVE  posts[r] >= MaxPosts
    BY DEF GivenUpWasTried
  <2>1. posts[r] = MaxPosts
    BY Zenon DEF DeliveryInv, RecordInv, Backed
  <2> QED
    BY <2>1, Bounds
<1> QED
  BY <1>1, DeliveryInvariance, PTL
=============================================================================
