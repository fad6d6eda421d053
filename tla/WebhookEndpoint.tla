---------------------------- MODULE WebhookEndpoint ----------------------------
(***************************************************************************)
(* A webhook's row and the proof that its owner controls the URL it names: *)
(* registration, edits, verification challenges, removal.                  *)
(*                                                                         *)
(* Edits save the whole row they read, except verificationTokenHash, a     *)
(* column that is never selected; the other writes update columns.  A save *)
(* after the removal inserts the row again.  The two calls of the secret   *)
(* rotation are edits that change none of the columns modelled here.       *)
(***************************************************************************)
EXTENDS Integers

CONSTANTS HookUrls, HookCalls,
          MaxTokens   \* bound: challenges ever issued

ASSUME TokenAssumption == MaxTokens \in Nat

VARIABLES hook,       \* the row
          sent,       \* challenges that reached their URL
          tokens,     \* how many were issued; a token is its number
          expired,    \* the tokens up to this one have expired
          job,        \* what each call does next: [step, url, token, active]
          seen,       \* the row as it read it
          submitted,  \* history: tokens that came with a verification
          redeemed    \* history: how often each token was accepted

hookVars == <<hook, sent, tokens, expired, job, seen, submitted, redeemed>>

Tokens == 1..MaxTokens
NoUrl == "none"
NoRow == [there |-> "no", url |-> NoUrl, active |-> "no", verified |-> "no",
          pending |-> NoUrl, expires |-> 0, hash |-> [url |-> NoUrl, token |-> 0]]
NoJob == [step |-> "idle", url |-> NoUrl, token |-> 0, active |-> "keep"]

HookInit ==
    /\ hook = NoRow
    /\ sent = {} /\ tokens = 0 /\ expired = 0
    /\ job = [c \in HookCalls |-> NoJob] /\ seen = [c \in HookCalls |-> NoRow]
    /\ submitted = {} /\ redeemed = [t \in Tokens |-> 0]

\* Mutant: the URL is not part of what is hashed.
TokenOnlyHash(url, token) == [url |-> NoUrl, token |-> token]

\* hashVerificationToken.
VerificationHash(url, token) == [url |-> url, token |-> token]

Fresh(t) == t > expired

\* findOne: the call goes on with step j and the row it found.
ReadHook(c, j) ==
    /\ job[c].step = "idle" /\ hook.there = "yes"
    /\ job' = [job EXCEPT ![c] = j]
    /\ seen' = [seen EXCEPT ![c] = hook]

GoOn(c, j) == job' = [job EXCEPT ![c] = j] /\ seen' = [seen EXCEPT ![c] = NoRow]

-----------------------------------------------------------------------------
\* register: once, under an identifier of its own.
Register(c) ==
    /\ job[c].step = "idle" /\ tokens = 0 /\ hook.there = "no"
    /\ \A d \in HookCalls : job[d].step # "issue"
    /\ \E u \in HookUrls :
          /\ hook' = [NoRow EXCEPT !.there = "yes", !.url = u]
          /\ GoOn(c, [NoJob EXCEPT !.step = "issue", !.url = u])
    /\ UNCHANGED <<sent, tokens, expired, submitted, redeemed>>

\* update(): only a verified webhook may be switched on.
StartUpdate(c) ==
    /\ \E u \in HookUrls \cup {NoUrl}, a \in {"keep", "yes", "no"} :
          /\ a = "yes" => hook.verified = "yes"
          /\ ReadHook(c, [NoJob EXCEPT !.step = "save", !.active = a,
                                       !.url = IF u = hook.url THEN NoUrl ELSE u])
    /\ UNCHANGED <<hook, sent, tokens, expired, submitted, redeemed>>

\* Mutant: the hash is saved with the rest of the copy.
SaveHookWholly(c, row) == hook' = row

\* webhookRepo.save.
SaveHook(c, row) ==
    hook' = [row EXCEPT !.hash = IF hook.there = "yes" THEN hook.hash ELSE NoRow.hash]

\* The save of update(); a new URL then waits for its verification.
SaveUpdate(c) ==
    /\ job[c].step = "save"
    /\ SaveHook(c, [seen[c] EXCEPT !.active = IF job[c].active = "keep" THEN @ ELSE job[c].active])
    /\ GoOn(c, IF job[c].url = NoUrl THEN NoJob ELSE [NoJob EXCEPT !.step = "issue", !.url = job[c].url])
    /\ UNCHANGED <<sent, tokens, expired, submitted, redeemed>>

\* resendEndpointVerification.
Resend(c) ==
    /\ job[c].step = "idle" /\ hook.there = "yes" /\ hook.pending # NoUrl
    /\ GoOn(c, [NoJob EXCEPT !.step = "issue", !.url = hook.pending])
    /\ UNCHANGED <<hook, sent, tokens, expired, submitted, redeemed>>

\* issueEndpointVerification: the update of the row ...
IssueToken(c) ==
    /\ job[c].step = "issue" /\ tokens < MaxTokens
    /\ tokens' = tokens + 1
    /\ IF hook.there = "yes"
          THEN hook' = [hook EXCEPT !.pending = job[c].url, !.expires = tokens',
                                    !.hash = VerificationHash(job[c].url, tokens')]
          ELSE UNCHANGED hook
    /\ GoOn(c, [job[c] EXCEPT !.step = "send", !.token = tokens'])
    /\ UNCHANGED <<sent, expired, submitted, redeemed>>

\* ... and the challenge, which may not arrive.
SendChallenge(c) ==
    /\ job[c].step = "send"
    /\ \/ sent' = sent \cup {[url |-> job[c].url, token |-> job[c].token]}
       \/ UNCHANGED sent
    /\ GoOn(c, NoJob)
    /\ UNCHANGED <<hook, tokens, expired, submitted, redeemed>>

TokenExpires ==
    /\ expired < tokens
    /\ expired' = expired + 1
    /\ UNCHANGED <<hook, sent, tokens, job, seen, submitted, redeemed>>

\* verifyEndpoint, with a token that was received somewhere: its checks ...
StartVerify(c) ==
    /\ hook.pending # NoUrl /\ hook.expires # 0 /\ Fresh(hook.expires)
    /\ \E d \in sent :
          /\ ReadHook(c, [NoJob EXCEPT !.step = "confirm", !.token = d.token])
          /\ submitted' = submitted \cup {d.token}
    /\ UNCHANGED <<hook, sent, tokens, expired, redeemed>>

\* ... and the conditional update.
ConfirmUrl(c) ==
    /\ job[c].step = "confirm"
    /\ LET u == seen[c].pending
           t == job[c].token
       IN  IF /\ hook.there = "yes" /\ hook.pending = u
              /\ hook.hash = VerificationHash(u, t)
              /\ hook.expires # 0 /\ Fresh(hook.expires)
              THEN /\ hook' = [NoRow EXCEPT !.there = "yes", !.url = u, !.active = "yes",
                                            !.verified = "yes"]
                   /\ redeemed' = [redeemed EXCEPT ![t] = IF @ = 2 THEN 2 ELSE @ + 1]
              ELSE UNCHANGED <<hook, redeemed>>
    /\ GoOn(c, NoJob)
    /\ UNCHANGED <<sent, tokens, expired, submitted>>

StartRemove(c) ==
    /\ ReadHook(c, [NoJob EXCEPT !.step = "remove"])
    /\ UNCHANGED <<hook, sent, tokens, expired, submitted, redeemed>>

RemoveHook(c) ==
    /\ job[c].step = "remove"
    /\ hook' = NoRow
    /\ GoOn(c, NoJob)
    /\ UNCHANGED <<sent, tokens, expired, submitted, redeemed>>

\* incrementConsecutiveFailures switches the webhook off.
FailuresDisable ==
    /\ hook.there = "yes" /\ hook.active = "yes"
    /\ hook' = [hook EXCEPT !.active = "no"]
    /\ UNCHANGED <<sent, tokens, expired, job, seen, submitted, redeemed>>

-----------------------------------------------------------------------------
HookNext ==
    \/ \E c \in HookCalls :
          \/ Register(c) \/ StartUpdate(c) \/ SaveUpdate(c) \/ Resend(c)
          \/ IssueToken(c) \/ SendChallenge(c) \/ StartVerify(c) \/ ConfirmUrl(c)
          \/ StartRemove(c) \/ RemoveHook(c)
    \/ TokenExpires \/ FailuresDisable

HookSpec == HookInit /\ [][HookNext]_hookVars

-----------------------------------------------------------------------------
(* Properties *)

\* Events go only to a URL whose owner gave back a token sent to that URL, also when
\* edits save old copies over a verification that is pending or done.
ActiveUrlIsProven ==
    hook.active = "yes" => \E d \in sent : d.url = hook.url /\ d.token \in submitted

\* A token is accepted at most once ("consumed atomically so they cannot be replayed"),
\* also when an edit puts the pending URL and the expiry date back.
TokenIsUsedOnce == \A t \in Tokens : redeemed[t] <= 1
=============================================================================
